---------------------------- MODULE Spec2Model ----------------------------
(***************************************************************************)
(* r-helper: the device-state reconciliation and notification engine of    *)
(* src/src/main.rs, src/src/messaging.rs, src/src/device/mod.rs and        *)
(* src/src/utils.rs.                                                       *)
(*                                                                         *)
(* Time is counted in tenths of a second: every duration the code compares *)
(* with (0.5 s, 1 s, 2.5 s, 3 s, 8 s, 2.1 s) is a whole number of them.    *)
(***************************************************************************)
EXTENDS Integers, Sequences, FiniteSets, TLC

VARIABLES
    \* ---- RazerGuiApp (owned by the UI thread) ----
    status,                       \* DeviceStatus
    device,                       \* Option<Device>: the descriptor of the detected unit
    device_state,                 \* Option<CompleteDeviceState>: the stored baseline
    available_performance_modes,  \* Vec<PerfMode>
    ac_power,
    fully_initialized,
    init_power_read,
    init_specs_complete,
    system_specs,                 \* TRUE once the inventory has been stored
    message_manager,              \* current_message, message_queue
    last_refresh_time,
    last_state_check_time,
    last_fan_enforce_time,
    last_perf_poll_time,
    status_messages,
    manual_fan_rpm,
    temp_brightness_step,
    brightness_slider_active,
    probe_receiver,               \* Option<Receiver>: the index of the probe it listens to
    \* ---- workers and channels ----
    init_worker,                  \* position of the start-up worker
    init_channel,                 \* InitMessage values sent and not yet received
    probes,                       \* the probe workers spawned so far, each with its channel
    \* ---- collaborators ----
    now,                          \* the monotonic clock read by Instant::now() / elapsed()
    dev,                          \* the settings held by the hardware
    supported,                    \* the performance modes the hardware accepts
    power,                        \* get_power_state(): TRUE on AC
    \* ---- observation ----
    devlog,                       \* the device calls (and snapshots compared) of the UI-thread
                                  \* handler that ran last
    applied,                      \* the InitMessage types applied so far, in order
    reader_errors,                \* what DeviceStateReader::finish returned at start-up
    inputs,                       \* number of inputs given so far: posts, requests, outside events
    last                          \* the operation that acted last, its input and outcome

\* `let x = e; ...`: the rest of a function body as a function of the value bound.
\* e is evaluated once, as the statement is executed once; the operators on the
\* application bind their arguments the same way, a Rust call evaluating its
\* arguments before the body runs.
Bind(e, F(_)) == CHOOSE r \in { F(x) : x \in {e} } : TRUE

\* Option<T>: None is the empty sequence, Some(x) the one-element sequence.
None == << >>
Some(x) == << x >>
IsSome(o) == o # << >>
Unwrap(o) == o[1]

(***************************************************************************)
(* messaging.rs                                                            *)
(***************************************************************************)
NormalSecs == 30
CriticalSecs == 80
FadeTail == 21
SaveAge == 30
QueueLimit == 10

\* A variant that gives every message the short duration.
UserMessage_new_short_critical(content, message_type, priority, t) ==
    [content |-> content, message_type |-> message_type, timestamp |-> t,
     duration |-> NormalSecs]

\* UserMessage::new: the display duration is fixed by the priority.
UserMessage_new(content, message_type, priority, t) ==
    [content |-> content, message_type |-> message_type, timestamp |-> t,
     duration |-> IF priority = "Normal" THEN NormalSecs ELSE CriticalSecs]

status_message(content, t) == UserMessage_new(content, "Info", "Normal", t)
error_message(content, t) == UserMessage_new(content, "Error", "Critical", t)

elapsed(m, t) == t - m.timestamp
is_expired(m, t) == elapsed(m, t) > m.duration + FadeTail
should_fade(m, t) == elapsed(m, t) > m.duration
age_seconds(m, t) == elapsed(m, t)

MessageManager_new == [current_message |-> None, message_queue |-> << >>]

\* Vec::retain(|m| !m.is_expired()): the entries kept, in their order.
RECURSIVE retain_live(_, _)
retain_live(q, t) ==
    IF q = << >> THEN << >>
    ELSE IF is_expired(Head(q), t) THEN retain_live(Tail(q), t)
         ELSE << Head(q) >> \o retain_live(Tail(q), t)

\* Vec::truncate(n) keeps the first n elements.
truncate(q, n) == IF Len(q) > n THEN SubSeq(q, 1, n) ELSE q

\* A variant that drops the expired entries and does not limit the size.
cleanup_queue_unbounded(mm, t) ==
    [mm EXCEPT !.message_queue = retain_live(mm.message_queue, t)]

cleanup_queue(mm, t) ==
    [mm EXCEPT !.message_queue = truncate(retain_live(mm.message_queue, t), QueueLimit)]

\* A variant in which a live Critical message is not preempted by a Normal one.
add_message_keeps_critical(mm, message, t) ==
    LET cur == mm.current_message
    IN IF IsSome(cur) /\ ~is_expired(Unwrap(cur), t)
          /\ Unwrap(cur).duration = CriticalSecs /\ message.duration = NormalSecs
       THEN [mm EXCEPT !.message_queue = Append(mm.message_queue, message)]
       ELSE [current_message |-> Some(message), message_queue |-> mm.message_queue]

add_message(mm, message, t) ==
    LET cur == mm.current_message
        saved == IF IsSome(cur) /\ age_seconds(Unwrap(cur), t) < SaveAge
                    /\ ~is_expired(Unwrap(cur), t)
                 THEN Append(mm.message_queue, Unwrap(cur))
                 ELSE mm.message_queue
    IN cleanup_queue([current_message |-> Some(message), message_queue |-> saved], t)

get_current_message(mm, t) ==
    IF IsSome(mm.current_message) /\ ~is_expired(Unwrap(mm.current_message), t)
    THEN mm.current_message ELSE None

\* A variant that promotes the entry popped without looking at its age.
promote_next_message_unchecked(mm, t) ==
    IF mm.message_queue = << >> THEN mm
    ELSE [current_message |-> Some(mm.message_queue[Len(mm.message_queue)]),
          message_queue |-> SubSeq(mm.message_queue, 1, Len(mm.message_queue) - 1)]

\* A variant that serves the backlog first-in-first-served.
RECURSIVE promote_next_message_oldest_first(_, _)
promote_next_message_oldest_first(mm, t) ==
    IF mm.message_queue = << >> THEN mm
    ELSE IF ~is_expired(Head(mm.message_queue), t)
         THEN [current_message |-> Some(Head(mm.message_queue)),
               message_queue |-> Tail(mm.message_queue)]
         ELSE promote_next_message_oldest_first(
                  [mm EXCEPT !.message_queue = Tail(mm.message_queue)], t)

\* Vec::pop takes the last element; expired entries met on the way are dropped.
RECURSIVE promote_next_message(_, _)
promote_next_message(mm, t) ==
    IF mm.message_queue = << >> THEN mm
    ELSE LET n == Len(mm.message_queue)
             next == mm.message_queue[n]
             rest == SubSeq(mm.message_queue, 1, n - 1)
         IN IF ~is_expired(next, t)
            THEN [current_message |-> Some(next), message_queue |-> rest]
            ELSE promote_next_message([mm EXCEPT !.message_queue = rest], t)

MessageManager_update(mm, t) ==
    IF IsSome(mm.current_message)
    THEN IF is_expired(Unwrap(mm.current_message), t)
         THEN promote_next_message([mm EXCEPT !.current_message = None], t)
         ELSE mm
    ELSE promote_next_message(mm, t)

(***************************************************************************)
(* librazer types and the consumed device interface.  A PerfMode is its    *)
(* position in PerfMode::iter(); its Debug name is what format!("{:?}")    *)
(* prints.                                                                 *)
(***************************************************************************)
PerfModeNames == << "Balanced", "Performance", "Battery", "Custom" >>
PerfModes == 1..Len(PerfModeNames)
Balanced == 1
Performance == 2
Battery == 3
Custom == 4

FanAuto == "FanMode::Auto"
FanManual == "FanMode::Manual"
LogoStatic == "LogoMode::Static"
LogoBreathing == "LogoMode::Breathing"
LogoOff == "LogoMode::Off"
Enable == "Enable"
Disable == "Disable"

perf_mode_to_string(mode_) ==
    Bind(mode_, LAMBDA mode :
    PerfModeNames[mode])

\* PerfMode::iter().find(|m| format!("{:?}", m) == mode)
string_to_perf_mode(mode) ==
    IF \E m \in PerfModes : PerfModeNames[m] = mode
    THEN Some(CHOOSE m \in PerfModes :
                 /\ PerfModeNames[m] = mode
                 /\ \A k \in PerfModes : PerfModeNames[k] = mode => m <= k)
    ELSE None

logo_mode_to_string(mode) ==
    CASE mode = LogoStatic -> "Static"
      [] mode = LogoBreathing -> "Breathing"
      [] mode = LogoOff -> "Off"

string_to_logo_mode(mode) ==
    CASE mode = "Static" -> Some(LogoStatic)
      [] mode = "Breathing" -> Some(LogoBreathing)
      [] mode = "Off" -> Some(LogoOff)
      [] OTHER -> None

(***************************************************************************)
(* ui/lighting.rs: the discrete brightness levels.                         *)
(***************************************************************************)
BRIGHTNESS_LEVELS == << 0, 13, 28, 43, 59, 74, 89, 105, 120, 133, 148, 163, 179, 194, 209, 225 >>

Abs(x) == IF x < 0 THEN -x ELSE x

\* min_by_key returns the first of several equally close levels; steps count from 0.
raw_brightness_to_step_index(brightness) ==
    (CHOOSE i \in 1..Len(BRIGHTNESS_LEVELS) :
        \A j \in 1..Len(BRIGHTNESS_LEVELS) :
            \/ Abs(BRIGHTNESS_LEVELS[i] - brightness) < Abs(BRIGHTNESS_LEVELS[j] - brightness)
            \/ /\ Abs(BRIGHTNESS_LEVELS[i] - brightness) = Abs(BRIGHTNESS_LEVELS[j] - brightness)
               /\ i <= j) - 1

(***************************************************************************)
(* device/mod.rs                                                           *)
(***************************************************************************)
CompleteDeviceState_default ==
    [perf_mode |-> Performance, fan_mode |-> FanAuto, fan_rpm |-> None,
     logo_mode |-> LogoOff, keyboard_brightness |-> 50,
     lights_always_on |-> Disable, battery_care |-> Enable]

(***************************************************************************)
(* A handler of the UI thread runs on a world: the application's fields,   *)
(* the hardware it talks to, the number of device calls it has made so far *)
(* and the calls that fail during it.  Every device call is synchronous    *)
(* and fallible; the calls of one handler are numbered from 1.             *)
(***************************************************************************)
CallOk(w) == (w.calls + 1) \notin w.fails

Call(w, op, arg, ok_) ==
    Bind(ok_, LAMBDA ok :
    [w EXCEPT !.calls = @ + 1, !.devlog = Append(@, << op, arg, ok >>)])

Read(w, op, val) == [w |-> Call(w, op, 0, CallOk(w)), ok |-> CallOk(w), val |-> val]

Write(w, op, arg, ok_, d_) ==
    Bind(ok_, LAMBDA ok : Bind(d_, LAMBDA d :
    [w |-> [Call(w, op, arg, ok) EXCEPT !.dev = IF ok THEN d ELSE @], ok |-> ok]))

get_perf_mode(w_) ==
    Bind(w_, LAMBDA w :
    Read(w, "get_perf_mode", << w.dev.perf_mode, w.dev.fan_mode >>))
get_fan_rpm(w) == Read(w, "get_fan_rpm", w.dev.fan_rpm)
get_fan_actual_rpm(w) == Read(w, "get_fan_actual_rpm", w.dev.fan_actual_rpm)
get_logo_mode(w_) ==
    Bind(w_, LAMBDA w :
    Read(w, "get_logo_mode", w.dev.logo_mode))
get_keyboard_brightness(w) == Read(w, "get_keyboard_brightness", w.dev.keyboard_brightness)
get_lights_always_on(w_) ==
    Bind(w_, LAMBDA w :
    Read(w, "get_lights_always_on", w.dev.lights_always_on))
get_battery_care(w_) ==
    Bind(w_, LAMBDA w :
    Read(w, "get_battery_care", w.dev.battery_care))

\* The hardware command that switches the performance mode puts the fan back to Auto;
\* a mode the unit does not support is refused.
PerfModeWritten(d, mode) == [d EXCEPT !.perf_mode = mode, !.fan_mode = FanAuto]

set_perf_mode(w, mode_) ==
    Bind(mode_, LAMBDA mode :
    Write(w, "set_perf_mode", mode, CallOk(w) /\ mode \in w.supported,
          PerfModeWritten(w.dev, mode)))
set_fan_mode(w, mode) ==
    Write(w, "set_fan_mode", mode, CallOk(w), [w.dev EXCEPT !.fan_mode = mode])
set_fan_rpm(w_, rpm) ==
    Bind(w_, LAMBDA w :
    Write(w, "set_fan_rpm", rpm, CallOk(w), [w.dev EXCEPT !.fan_rpm = rpm]))
set_logo_mode_cmd(w, mode_) ==
    Bind(mode_, LAMBDA mode :
    Write(w, "set_logo_mode", mode, CallOk(w), [w.dev EXCEPT !.logo_mode = mode]))
set_keyboard_brightness(w, b) ==
    Write(w, "set_keyboard_brightness", b, CallOk(w), [w.dev EXCEPT !.keyboard_brightness = b])
set_lights_always_on(w, v) ==
    Write(w, "set_lights_always_on", v, CallOk(w), [w.dev EXCEPT !.lights_always_on = v])
set_battery_care(w, v) ==
    Write(w, "set_battery_care", v, CallOk(w), [w.dev EXCEPT !.battery_care = v])

\* CompleteDeviceState::read_from_device: the first failing read ends it (`?`).
ReadErr(w) == [w |-> w, ok |-> FALSE, val |-> None]

read_from_device(w) ==
    Bind(get_perf_mode(w), LAMBDA p :
    IF ~p.ok THEN ReadErr(p.w) ELSE
    Bind(IF p.val[2] = FanManual THEN get_fan_rpm(p.w)
         ELSE [w |-> p.w, ok |-> TRUE, val |-> 0], LAMBDA r :
    IF ~r.ok THEN ReadErr(r.w) ELSE
    Bind(get_logo_mode(r.w), LAMBDA l :
    IF ~l.ok THEN ReadErr(l.w) ELSE
    Bind(get_keyboard_brightness(l.w), LAMBDA k :
    IF ~k.ok THEN ReadErr(k.w) ELSE
    Bind(get_lights_always_on(k.w), LAMBDA a :
    IF ~a.ok THEN ReadErr(a.w) ELSE
    Bind(get_battery_care(a.w), LAMBDA b :
    IF ~b.ok THEN ReadErr(b.w) ELSE
    [w |-> b.w, ok |-> TRUE,
     val |-> Some([perf_mode |-> p.val[1], fan_mode |-> p.val[2],
                   fan_rpm |-> IF p.val[2] = FanManual THEN Some(r.val) ELSE None,
                   logo_mode |-> l.val, keyboard_brightness |-> k.val,
                   lights_always_on |-> a.val, battery_care |-> b.val])]))))))

(***************************************************************************)
(* utils.rs                                                                *)
(***************************************************************************)
\* The display text of a device error: opaque to this program.
ErrText == "device error"

\* execute_device_command_simple: r is the outcome of the command on Some(device).
execute_device_command_simple(has_device, r, success_msg_, error_prefix) ==
    Bind(success_msg_, LAMBDA success_msg :
    IF has_device
    THEN IF r.ok THEN [ok |-> TRUE, message |-> success_msg]
         ELSE [ok |-> FALSE, message |-> error_prefix \o ": " \o ErrText]
    ELSE [ok |-> FALSE, message |-> "No device connected"])

\* DeviceStateReader::read with the diagnostics kept newest first.
DeviceStateReader_read_newest_first(errors, r, operation_name) ==
    IF r.ok THEN [errors |-> errors, val |-> Some(r.val)]
    ELSE [errors |-> << "Failed to read " \o operation_name \o ": " \o ErrText >> \o errors,
          val |-> None]

\* DeviceStateReader::read: r is the outcome of the operation; a failure is recorded
\* in the reader's errors and yields None.
DeviceStateReader_read(errors, r, operation_name) ==
    IF r.ok THEN [errors |-> errors, val |-> Some(r.val)]
    ELSE [errors |-> Append(errors, "Failed to read " \o operation_name \o ": " \o ErrText),
          val |-> None]

DeviceStateReader_finish(errors) == errors

(***************************************************************************)
(* main.rs: RazerGuiApp                                                    *)
(***************************************************************************)
DeviceStatus_default ==
    [performance_mode |-> "Reading...", fan_speed |-> "Reading...", fan_rpm |-> None,
     fan_actual_rpm |-> None, logo_mode |-> "Reading...", keyboard_brightness |-> 0,
     lights_always_on |-> FALSE, battery_care |-> TRUE]

ac_profile == CompleteDeviceState_default
battery_profile == [CompleteDeviceState_default EXCEPT !.perf_mode = Battery]

\* loading is cleared by start_background_initialization and never set again.
loading == FALSE

set_status_message(w_, message_) ==
    Bind(w_, LAMBDA w : Bind(message_, LAMBDA message :
    [w EXCEPT !.message_manager = add_message(@, status_message(message, w.now), w.now)]))

set_optional_status_message(w_, message) ==
    Bind(w_, LAMBDA w :
    IF w.status_messages THEN set_status_message(w, message) ELSE w)

set_error_message(w_, message_) ==
    Bind(w_, LAMBDA w : Bind(message_, LAMBDA message :
    [w EXCEPT !.message_manager = add_message(@, error_message(message, w.now), w.now)]))

set_no_device_message(w) == set_status_message(w, "No device connected")

ReadOption(r_) ==
    Bind(r_, LAMBDA r :
    [w |-> r.w, val |-> IF r.ok THEN Some(r.val) ELSE None])

get_fan_rpm_actual(w_) ==
    Bind(w_, LAMBDA w :
    ReadOption(get_fan_actual_rpm(w)))

get_fan_rpm_set(w) == ReadOption(get_fan_rpm(w))

\* The fan mode is read with one retry and taken to be Auto when both reads fail.
read_current_fan_state(w) ==
    Bind(get_perf_mode(w), LAMBDA r1 :
    Bind(IF r1.ok THEN r1 ELSE get_perf_mode(r1.w), LAMBDA r2 :
    Bind(get_fan_rpm_set(r2.w), LAMBDA s :
    [w |-> s.w, fan_mode |-> IF r2.ok THEN r2.val[2] ELSE FanAuto, set_rpm |-> s.val])))

get_fan_status_from_mode(w_, fan_mode) ==
    Bind(w_, LAMBDA w :
    IF fan_mode = FanAuto THEN [w |-> w, fan_speed |-> "Auto", fan_rpm |-> None]
    ELSE Bind(get_fan_rpm_set(w), LAMBDA s :
         [w |-> s.w, fan_speed |-> "Manual", fan_rpm |-> s.val]))

\* status.fan_speed, status.fan_rpm and, when an RPM was read, manual_fan_rpm.
StoreFanStatus(w_, fan_speed, fan_rpm, slider_rpm) ==
    Bind(w_, LAMBDA w :
    [w EXCEPT !.status.fan_speed = fan_speed,
              !.status.fan_rpm = fan_rpm,
              !.manual_fan_rpm = IF IsSome(slider_rpm) THEN Unwrap(slider_rpm) ELSE @])

StoreBrightness(w, r_) ==
    Bind(r_, LAMBDA r :
    IF r.ok THEN [r.w EXCEPT !.status.keyboard_brightness = r.val,
                             !.temp_brightness_step = raw_brightness_to_step_index(r.val)]
    ELSE r.w)

StoreLights(r_) ==
    Bind(r_, LAMBDA r :
    IF r.ok THEN [r.w EXCEPT !.status.lights_always_on = (r.val = Enable)] ELSE r.w)

StoreBatteryCare(r_) ==
    Bind(r_, LAMBDA r :
    IF r.ok THEN [r.w EXCEPT !.status.battery_care = (r.val = Enable)] ELSE r.w)

detect_available_performance_modes(dv) ==
    IF IsSome(dv) /\ IsSome(Unwrap(dv).perf_modes) THEN Unwrap(Unwrap(dv).perf_modes)
    ELSE [i \in PerfModes |-> i]

\* status.performance_mode and the fan fields from a successful get_perf_mode.
StorePerfAndFan(p_) ==
    Bind(p_, LAMBDA p :
    Bind(get_fan_status_from_mode(p.w, p.val[2]), LAMBDA f :
    StoreFanStatus([f.w EXCEPT !.status.performance_mode = perf_mode_to_string(p.val[1])],
                   f.fan_speed, f.fan_rpm, f.fan_rpm)))

StoreFan(p_) ==
    Bind(p_, LAMBDA p :
    Bind(get_fan_status_from_mode(p.w, p.val[2]), LAMBDA f :
    StoreFanStatus(f.w, f.fan_speed, f.fan_rpm, f.fan_rpm)))

StoreLogo(l_) ==
    Bind(l_, LAMBDA l :
    IF l.ok THEN [l.w EXCEPT !.status.logo_mode = logo_mode_to_string(l.val)] ELSE l.w)

\* `if let Some(v) = reader.read(..)`: the outcome r of the call as the caller sees it
\* through the Option the reader returned.
IfLetSome(r, o) ==
    [w |-> r.w, ok |-> IsSome(o), val |-> IF IsSome(o) THEN Unwrap(o) ELSE r.val]

read_initial_device_state(w_) ==
    Bind(w_, LAMBDA w :
    IF ~IsSome(w.device) THEN w
    ELSE
    Bind(get_keyboard_brightness(w), LAMBDA b :
    Bind(DeviceStateReader_read(<< >>, b, "keyboard brightness"), LAMBDA rb :
    Bind(get_perf_mode(StoreBrightness(w, IfLetSome(b, rb.val))), LAMBDA p :
    Bind(DeviceStateReader_read(rb.errors, p, "performance mode"), LAMBDA rp :
    Bind(IF IsSome(rp.val) THEN StorePerfAndFan(IfLetSome(p, rp.val)) ELSE p.w, LAMBDA w2 :
    Bind(IF w2.status.fan_speed = "Reading..."
         THEN Bind(get_perf_mode(w2), LAMBDA q : IF q.ok THEN StoreFan(q) ELSE q.w)
         ELSE w2, LAMBDA w3 :
    Bind(get_lights_always_on(w3), LAMBDA l :
    Bind(DeviceStateReader_read(rp.errors, l, "lights always on"), LAMBDA rl :
    Bind(get_battery_care(StoreLights(IfLetSome(l, rl.val))), LAMBDA c :
    Bind(DeviceStateReader_read(rl.errors, c, "battery care"), LAMBDA rc :
    [StoreBatteryCare(IfLetSome(c, rc.val))
        EXCEPT !.reader_errors = DeviceStateReader_finish(rc.errors)]
    )))))))))))

\* Ok(w) or Err: only the first read is propagated with `?`.
read_device_status(w_) ==
    Bind(w_, LAMBDA w :
    Bind(get_perf_mode(w), LAMBDA p :
    IF ~p.ok THEN [w |-> p.w, ok |-> FALSE] ELSE
    Bind(get_fan_rpm_actual(StorePerfAndFan(p)), LAMBDA a :
    Bind(StoreLogo(get_logo_mode([a.w EXCEPT !.status.fan_actual_rpm = a.val])), LAMBDA w3 :
    Bind(StoreBrightness(w3, get_keyboard_brightness(w3)), LAMBDA w4 :
    [w |-> StoreBatteryCare(get_battery_care(StoreLights(get_lights_always_on(w4)))),
     ok |-> TRUE])))))

sync_ui_with_device_state(w_) ==
    Bind(w_, LAMBDA w :
    IF ~IsSome(w.device) THEN w
    ELSE
    Bind(IF ~w.brightness_slider_active
         THEN StoreBrightness(w, get_keyboard_brightness(w)) ELSE w, LAMBDA w1 :
    Bind(read_current_fan_state(w1), LAMBDA c :
    Bind(get_fan_status_from_mode(c.w, c.fan_mode), LAMBDA f :
    StoreBatteryCare(get_battery_care(StoreLights(get_lights_always_on(
        StoreFanStatus(f.w, f.fan_speed, f.fan_rpm, c.set_rpm)))))))))

sync_other_dynamic_state(w) ==
    IF ~IsSome(w.device) THEN w
    ELSE StoreBatteryCare(get_battery_care(StoreLights(get_lights_always_on(w))))

read_essential_device_state(w) ==
    Bind(get_perf_mode(w), LAMBDA p :
    IF ~p.ok THEN [w |-> p.w, ok |-> FALSE]
    ELSE [w |-> StoreLogo(get_logo_mode(StorePerfAndFan(p))), ok |-> TRUE])

init_fan_slider_from_device(w_) ==
    Bind(w_, LAMBDA w :
    IF ~IsSome(w.device) THEN w
    ELSE Bind(read_current_fan_state(w), LAMBDA c :
         Bind(get_fan_status_from_mode(c.w, c.fan_mode), LAMBDA f :
         StoreFanStatus(f.w, f.fan_speed, f.fan_rpm, c.set_rpm))))

update_stored_device_state(w_) ==
    Bind(w_, LAMBDA w :
    IF ~IsSome(w.device) THEN w
    ELSE Bind(read_from_device(w), LAMBDA r :
         IF r.ok THEN [r.w EXCEPT !.device_state = r.val] ELSE r.w))

\* The status fields a changed snapshot is copied into.
StatusFromSnapshot(w, current_state) ==
    Bind(StoreFan([w |-> [w EXCEPT !.status.performance_mode =
                                     perf_mode_to_string(current_state.perf_mode)],
                   val |-> << current_state.perf_mode, current_state.fan_mode >>]),
         LAMBDA w1 :
    [w1 EXCEPT !.status.logo_mode = logo_mode_to_string(current_state.logo_mode),
               !.status.keyboard_brightness = current_state.keyboard_brightness,
               !.temp_brightness_step =
                   raw_brightness_to_step_index(current_state.keyboard_brightness),
               !.status.lights_always_on = (current_state.lights_always_on = Enable),
               !.status.battery_care = (current_state.battery_care = Enable)])

\* A variant that names the two modes the wrong way round.
ExternalChangeText_swapped(old_perf_mode, new_perf_mode) ==
    "Performance mode changed externally: " \o new_perf_mode \o " → " \o old_perf_mode

ExternalChangeText(old_perf_mode_, new_perf_mode_) ==
    Bind(old_perf_mode_, LAMBDA old_perf_mode : Bind(new_perf_mode_, LAMBDA new_perf_mode :
    "Performance mode changed externally: " \o old_perf_mode \o " → " \o new_perf_mode))

\* Observation: the baseline and the snapshot compared, noted among the device calls.
Compared(w, stored_state, current_state) ==
    [w EXCEPT !.devlog = Append(@, << "diff", << stored_state, current_state >>, TRUE >>)]

\* A variant that compares the performance modes only.
ReportChanges_perf_only(w, stored_state, current_state) ==
    IF current_state.perf_mode = stored_state.perf_mode THEN w
    ELSE set_status_message(
             StatusFromSnapshot([w EXCEPT !.device_state = Some(current_state)], current_state),
             ExternalChangeText(perf_mode_to_string(stored_state.perf_mode),
                                perf_mode_to_string(current_state.perf_mode)))

\* The comparison of a fresh snapshot with the baseline, the baseline being Some.
\* A variant that replaces the baseline and leaves the status as it was.
ReportChanges_baseline_only(w, stored_state, current_state) ==
    IF current_state = stored_state THEN w
    ELSE [w EXCEPT !.device_state = Some(current_state)]

ReportChanges(w_, stored_state, current_state) ==
    Bind(w_, LAMBDA w :
    IF current_state = stored_state THEN w
    ELSE Bind(StatusFromSnapshot([w EXCEPT !.device_state = Some(current_state)],
                                 current_state), LAMBDA w1 :
         IF perf_mode_to_string(stored_state.perf_mode)
                # perf_mode_to_string(current_state.perf_mode)
         THEN set_status_message(w1,
                  ExternalChangeText(perf_mode_to_string(stored_state.perf_mode),
                                     perf_mode_to_string(current_state.perf_mode)))
         ELSE IF w1.status_messages
              THEN set_optional_status_message(w1, "Device state updated externally")
              ELSE w1))

\* A variant that treats the first snapshot as a change.
check_device_state_changes_first_reported(w) ==
    IF ~IsSome(w.device) THEN [w |-> w, ok |-> TRUE]
    ELSE
    Bind(read_from_device(w), LAMBDA r :
    IF ~r.ok THEN [w |-> r.w, ok |-> FALSE]
    ELSE IF IsSome(w.device_state)
         THEN [w |-> ReportChanges(Compared(r.w, Unwrap(w.device_state), Unwrap(r.val)),
                                   Unwrap(w.device_state), Unwrap(r.val)),
               ok |-> TRUE]
         ELSE [w |-> set_status_message(
                         StatusFromSnapshot([r.w EXCEPT !.device_state = r.val], Unwrap(r.val)),
                         "Device state updated externally"),
               ok |-> TRUE])

check_device_state_changes(w) ==
    IF ~IsSome(w.device) THEN [w |-> w, ok |-> TRUE]
    ELSE
    Bind(read_from_device(w), LAMBDA r :
    IF ~r.ok THEN [w |-> r.w, ok |-> FALSE]
    ELSE IF IsSome(w.device_state)
         THEN [w |-> ReportChanges(Compared(r.w, Unwrap(w.device_state), Unwrap(r.val)),
                                   Unwrap(w.device_state), Unwrap(r.val)),
               ok |-> TRUE]
         ELSE [w |-> [r.w EXCEPT !.device_state = r.val], ok |-> TRUE])

\* Ok or Err: every write is propagated with `?`, in this order.
WriteErr(w) == [w |-> w, ok |-> FALSE]

\* A variant that writes the logo mode before the performance mode.
apply_profile_logo_first(w, profile) ==
    Bind(set_logo_mode_cmd(w, profile.logo_mode), LAMBDA l :
    IF ~l.ok THEN WriteErr(l.w) ELSE
    Bind(set_perf_mode(l.w, profile.perf_mode), LAMBDA p :
    IF ~p.ok THEN WriteErr(p.w) ELSE
    Bind(set_lights_always_on(p.w, profile.lights_always_on), LAMBDA a :
    IF ~a.ok THEN WriteErr(a.w) ELSE
    set_battery_care(a.w, profile.battery_care))))

apply_profile(w, profile_) ==
    Bind(profile_, LAMBDA profile :
    Bind(set_perf_mode(w, profile.perf_mode), LAMBDA p :
    IF ~p.ok THEN WriteErr(p.w) ELSE
    Bind(set_logo_mode_cmd(p.w, profile.logo_mode), LAMBDA l :
    IF ~l.ok THEN WriteErr(l.w) ELSE
    Bind(get_keyboard_brightness(l.w), LAMBDA g :
    Bind(IF g.ok /\ g.val = profile.keyboard_brightness THEN [w |-> g.w, ok |-> TRUE]
         ELSE set_keyboard_brightness(g.w, profile.keyboard_brightness), LAMBDA k :
    IF ~k.ok THEN WriteErr(k.w) ELSE
    Bind(set_lights_always_on(k.w, profile.lights_always_on), LAMBDA a :
    IF ~a.ok THEN WriteErr(a.w) ELSE
    set_battery_care(a.w, profile.battery_care)))))))

target_profile(w) == IF w.ac_power THEN ac_profile ELSE battery_profile
profile_name(w) == IF w.ac_power THEN "AC" ELSE "Battery"

\* The end of auto_switch_profile, after the full read r or the fallback.
AfterSwitchRead(r_) ==
    Bind(r_, LAMBDA r :
    Bind(IF r.ok THEN r.w
         ELSE Bind(apply_profile(r.w, target_profile(r.w)), LAMBDA f :
              IF f.ok THEN f.w
              ELSE set_error_message(f.w, "Failed to apply fallback profile: " \o ErrText)),
         LAMBDA w2 :
    sync_ui_with_device_state(update_stored_device_state(w2))))

auto_switch_profile(w) ==
    Bind(set_perf_mode(w, target_profile(w).perf_mode), LAMBDA p :
    IF ~p.ok
    THEN set_error_message(p.w, "Failed to switch to " \o profile_name(w)
                                  \o " profile: " \o ErrText)
    ELSE AfterSwitchRead(read_device_status(
             set_status_message(
                 [p.w EXCEPT !.status.performance_mode =
                                perf_mode_to_string(target_profile(w).perf_mode)],
                 "⚡ Auto-switched to " \o profile_name(w) \o " profile"))))
\* A probe worker as spawned: it has made no call yet and its channel is empty.
\* writes, found, disturbed and touched observe it: the set_perf_mode calls it has made,
\* the device settings when it was spawned, and whether anyone else has written the
\* device since then and since its restoring write; failed counts its failed calls.
ProbeWorker_new(d) ==
    [pc |-> "detect", current_mode |-> 0, i |-> 1, modes |-> << >>, channel |-> None,
     writes |-> << >>, found |-> d, disturbed |-> FALSE, touched |-> FALSE, failed |-> 0]

\* A variant without the guard on the Custom mode.
start_probe_perf_modes_unguarded(w, force) ==
    IF ~IsSome(w.device) THEN w
    ELSE IF ~force /\ IsSome(Unwrap(w.device).perf_modes) THEN w
    ELSE Bind(get_perf_mode(w), LAMBDA r :
         [r.w EXCEPT !.probes = Append(
                         IF IsSome(w.probe_receiver)
                         THEN [@ EXCEPT ![Unwrap(w.probe_receiver)].channel = None]
                         ELSE @, ProbeWorker_new(w.dev)),
                     !.probe_receiver = Some(Len(w.probes) + 1)])

\* A variant that keeps the receiver of a probe still in flight.
start_probe_perf_modes_keep_receiver(w, force) ==
    IF ~IsSome(w.device) THEN w
    ELSE IF ~force /\ IsSome(Unwrap(w.device).perf_modes) THEN w
    ELSE Bind(get_perf_mode(w), LAMBDA r :
         IF r.ok /\ r.val[1] = Custom THEN r.w
         ELSE [r.w EXCEPT !.probes = Append(@, ProbeWorker_new(w.dev)),
                          !.probe_receiver = IF IsSome(w.probe_receiver) THEN @
                                             ELSE Some(Len(w.probes) + 1)])

start_probe_perf_modes(w, force) ==
    IF ~IsSome(w.device) THEN w
    ELSE IF ~force /\ IsSome(Unwrap(w.device).perf_modes) THEN w
    ELSE Bind(get_perf_mode(w), LAMBDA r :
         IF r.ok /\ r.val[1] = Custom THEN r.w
         ELSE [r.w EXCEPT \* the receiver replaced is dropped with what it holds
                          !.probes = Append(
                              IF IsSome(w.probe_receiver)
                              THEN [@ EXCEPT ![Unwrap(w.probe_receiver)].channel = None]
                              ELSE @, ProbeWorker_new(w.dev)),
                          !.probe_receiver = Some(Len(w.probes) + 1)])

maybe_probe_perf_modes_async(w_) ==
    Bind(w_, LAMBDA w :
    start_probe_perf_modes(w, FALSE))

\* InitializationComplete on a connected device, after the full read r.
AfterFirstRead(r_) ==
    Bind(r_, LAMBDA r :
    IF ~r.ok THEN set_error_message(r.w, "Failed to read device status: " \o ErrText)
    ELSE maybe_probe_perf_modes_async(
             init_fan_slider_from_device(
                 sync_ui_with_device_state(
                     update_stored_device_state(r.w)))))

Applied(w, message) == [w EXCEPT !.applied = Append(@, message.type)]

\* A variant that announces completion as soon as InitializationComplete is applied.
ApplyInitMessage_complete_early(w, message) ==
    CASE message.type = "SystemSpecsComplete" ->
           Bind([Applied(w, message) EXCEPT !.system_specs = TRUE,
                                            !.init_specs_complete = TRUE], LAMBDA w1 :
           IF w1.fully_initialized /\ w1.init_power_read /\ w1.init_specs_complete
           THEN set_status_message(w1, "Initialization complete")
           ELSE set_optional_status_message(w1, "System specifications loaded"))
      [] message.type = "PowerStateRead" ->
           [Applied(w, message) EXCEPT !.ac_power = message.ac_power,
                                       !.init_power_read = TRUE]
      [] message.type = "InitializationComplete" ->
           Bind([Applied(w, message) EXCEPT !.fully_initialized = TRUE], LAMBDA w1 :
           set_status_message(
               IF ~IsSome(w1.device) THEN w1 ELSE AfterFirstRead(read_device_status(w1)),
               "Initialization complete"))

\* A variant that notes that the power state has been read and drops the reading.
ApplyInitMessage_reading_dropped(w, message) ==
    CASE message.type = "SystemSpecsComplete" ->
           Bind([Applied(w, message) EXCEPT !.system_specs = TRUE,
                                            !.init_specs_complete = TRUE], LAMBDA w1 :
           IF w1.fully_initialized /\ w1.init_power_read /\ w1.init_specs_complete
           THEN set_status_message(w1, "Initialization complete")
           ELSE set_optional_status_message(w1, "System specifications loaded"))
      [] message.type = "PowerStateRead" ->
           [Applied(w, message) EXCEPT !.init_power_read = TRUE]
      [] message.type = "InitializationComplete" ->
           Bind([Applied(w, message) EXCEPT !.fully_initialized = TRUE], LAMBDA w1 :
           IF ~IsSome(w1.device) THEN w1 ELSE AfterFirstRead(read_device_status(w1)))

ApplyInitMessage(w, message) ==
    CASE message.type = "SystemSpecsComplete" ->
           Bind([Applied(w, message) EXCEPT !.system_specs = TRUE,
                                            !.init_specs_complete = TRUE], LAMBDA w1 :
           IF w1.fully_initialized /\ w1.init_power_read /\ w1.init_specs_complete
           THEN set_status_message(w1, "Initialization complete")
           ELSE set_optional_status_message(w1, "System specifications loaded"))
      [] message.type = "PowerStateRead" ->
           [Applied(w, message) EXCEPT !.ac_power = message.ac_power,
                                       !.init_power_read = TRUE]
      [] message.type = "InitializationComplete" ->
           Bind([Applied(w, message) EXCEPT !.fully_initialized = TRUE], LAMBDA w1 :
           IF ~IsSome(w1.device) THEN w1 ELSE AfterFirstRead(read_device_status(w1)))

RECURSIVE ApplyInitMessages(_, _)
ApplyInitMessages(w_, messages) ==
    Bind(w_, LAMBDA w :
    IF messages = << >> THEN w
    ELSE ApplyInitMessages(ApplyInitMessage(w, Head(messages)), Tail(messages)))

\* A variant that applies the newest message first.
process_background_initialization_newest_first(w) ==
    ApplyInitMessages([w EXCEPT !.init_channel = << >>],
                      [i \in 1..Len(w.init_channel) |->
                          w.init_channel[Len(w.init_channel) + 1 - i]])

\* try_recv until the channel is empty, then the messages in the order received.
process_background_initialization(w) ==
    ApplyInitMessages([w EXCEPT !.init_channel = << >>], w.init_channel)

\* A variant that stores whatever list arrives, the empty one too.
TakeProbeResult_any_list(w, k) ==
    set_optional_status_message(
        [w EXCEPT !.probes[k].channel = None, !.probe_receiver = None,
                  !.available_performance_modes = Unwrap(w.probes[k].channel)],
        "Detected supported performance modes")

\* update(): the probe result, when one has arrived on the stored receiver.
TakeProbeResult(w, k) ==
    Bind([w EXCEPT !.probes[k].channel = None, !.probe_receiver = None], LAMBDA w1 :
    IF Unwrap(w.probes[k].channel) # << >>
    THEN set_optional_status_message(
             [w1 EXCEPT !.available_performance_modes = Unwrap(w.probes[k].channel)],
             "Detected supported performance modes")
    ELSE w1)

ReceiveProbeResult(w_) ==
    Bind(w_, LAMBDA w :
    IF IsSome(w.probe_receiver) /\ IsSome(w.probes[Unwrap(w.probe_receiver)].channel)
    THEN TakeProbeResult(w, Unwrap(w.probe_receiver))
    ELSE w)

\* A variant that writes the RPM before the fan is back in manual mode.
RestoreFan_rpm_first(w, rpm) ==
    Bind(set_fan_rpm(w, rpm), LAMBDA s :
    Bind(set_fan_mode(s.w, FanManual), LAMBDA m :
    IF s.ok /\ m.ok
    THEN [m.w EXCEPT !.status.fan_speed = "Manual", !.status.fan_rpm = Some(rpm),
                     !.manual_fan_rpm = rpm]
    ELSE set_error_message(m.w,
             "Failed to restore manual fan mode after performance mode change")))

\* A variant that reports both failures of the restore with one text.
RestoreFan_one_message(w, rpm) ==
    Bind(set_fan_mode(w, FanManual), LAMBDA m :
    IF ~m.ok
    THEN set_error_message(m.w,
             "Failed to restore manual fan mode after performance mode change")
    ELSE Bind(set_fan_rpm(m.w, rpm), LAMBDA s :
         IF s.ok
         THEN [s.w EXCEPT !.status.fan_speed = "Manual", !.status.fan_rpm = Some(rpm),
                          !.manual_fan_rpm = rpm]
         ELSE set_error_message(s.w,
                  "Failed to restore manual fan mode after performance mode change")))

\* The fan settings read before the switch are put back after it: manual mode first,
\* then the RPM.
RestoreFan(w, rpm) ==
    Bind(set_fan_mode(w, FanManual), LAMBDA m :
    IF ~m.ok
    THEN set_error_message(m.w,
             "Failed to restore manual fan mode after performance mode change")
    ELSE Bind(set_fan_rpm(m.w, rpm), LAMBDA s :
         IF s.ok
         THEN [s.w EXCEPT !.status.fan_speed = "Manual", !.status.fan_rpm = Some(rpm),
                          !.manual_fan_rpm = rpm]
         ELSE set_error_message(s.w,
                  "Failed to restore fan RPM after performance mode change")))

SwitchPerfMode(c_, mode) ==
    Bind(c_, LAMBDA c :
    Bind(set_perf_mode(c.w, Unwrap(string_to_perf_mode(mode))), LAMBDA p :
    IF p.ok
    THEN set_optional_status_message(
             IF c.fan_mode = FanManual /\ IsSome(c.set_rpm)
             THEN RestoreFan([p.w EXCEPT !.status.performance_mode = mode],
                             Unwrap(c.set_rpm))
             ELSE [p.w EXCEPT !.status.performance_mode = mode],
             "Performance mode set to " \o mode)
    ELSE set_error_message(p.w, "Failed to set performance mode: " \o ErrText)))

set_performance_mode(w, mode_) ==
    Bind(mode_, LAMBDA mode :
    IF ~IsSome(string_to_perf_mode(mode)) THEN w
    ELSE IF ~IsSome(w.device) THEN set_no_device_message(w)
    ELSE update_stored_device_state(SwitchPerfMode(read_current_fan_state(w), mode)))

FanToAuto(w) ==
    Bind(set_fan_mode(w, FanAuto), LAMBDA a :
    IF a.ok
    THEN [w |-> [a.w EXCEPT !.status.fan_speed = "Auto", !.status.fan_rpm = None],
          ok |-> TRUE]
    ELSE [w |-> a.w, ok |-> FALSE])

FanToManual(w, rpm_val) ==
    Bind(set_fan_mode(w, FanManual), LAMBDA m :
    IF ~m.ok THEN [w |-> m.w, ok |-> FALSE]
    ELSE Bind(set_fan_rpm(m.w, rpm_val), LAMBDA s :
         IF ~s.ok THEN [w |-> s.w, ok |-> FALSE]
         ELSE [w |-> [s.w EXCEPT !.status.fan_speed = "Manual",
                                 !.status.fan_rpm = Some(rpm_val)],
               ok |-> TRUE]))

set_fan_mode_request(w, mode, rpm) ==
    IF ~IsSome(w.device) THEN set_no_device_message(w)
    ELSE IF mode \notin {"auto", "manual"} THEN w
    ELSE Bind(IF mode = "auto" THEN FanToAuto(w)
              ELSE FanToManual(w, IF IsSome(rpm) THEN Unwrap(rpm) ELSE 2000),
              LAMBDA result :
         IF result.ok
         THEN set_optional_status_message(result.w, "Fan set to " \o mode \o " mode")
         ELSE set_status_message(result.w, "Failed to set fan: " \o ErrText))

\* The world after a command that ran only on Some(device).
Ran(w, r) == IF IsSome(w.device) THEN r.w ELSE w

set_fan_rpm_only(w, rpm) ==
    Bind(set_fan_rpm(w, rpm), LAMBDA r :
    Bind(execute_device_command_simple(IsSome(w.device), r,
             "Fans RPM set to: " \o ToString(rpm), "Failed to set fan RPM"), LAMBDA e :
    IF e.ok
    THEN set_optional_status_message([Ran(w, r) EXCEPT !.status.fan_rpm = Some(rpm)],
                                     e.message)
    ELSE set_error_message(Ran(w, r), e.message)))

\* A variant that takes the value it read for written before the write has succeeded.
enforce_manual_fan_rpm_optimistic(w) ==
    IF w.status.fan_speed = "Manual" /\ IsSome(w.device)
    THEN Bind(get_fan_rpm_set(w), LAMBDA g :
         IF ~IsSome(g.val) THEN g.w
         ELSE Bind(set_fan_rpm(g.w, Unwrap(g.val)), LAMBDA s :
              [s.w EXCEPT !.manual_fan_rpm = Unwrap(g.val),
                          !.status.fan_rpm = Some(Unwrap(g.val)),
                          !.last_fan_enforce_time = IF s.ok THEN w.now ELSE @]))
    ELSE w

\* Another tool's write reaching the device during a handler, noted among its calls.
ExternalCall(w, field, value) ==
    [w EXCEPT !.dev[field] = value,
              !.devlog = Append(@, << "external", value, TRUE >>)]

\* enforce_manual_fan_rpm with another tool setting the RPM between its read and its
\* write-back: the two device calls are separate HID transactions.
enforce_manual_fan_rpm_between(w_, rpm) ==
    Bind(w_, LAMBDA w :
    IF w.status.fan_speed = "Manual" /\ IsSome(w.device)
    THEN Bind(get_fan_rpm_set(w), LAMBDA g :
         IF ~IsSome(g.val) THEN g.w
         ELSE Bind(set_fan_rpm(ExternalCall(g.w, "fan_rpm", rpm), Unwrap(g.val)), LAMBDA s :
              IF s.ok
              THEN [s.w EXCEPT !.manual_fan_rpm = Unwrap(g.val),
                               !.status.fan_rpm = Some(Unwrap(g.val)),
                               !.last_fan_enforce_time = w.now]
              ELSE s.w))
    ELSE w)

\* Reads the configured RPM and writes the same value back; failures are silent.
enforce_manual_fan_rpm(w) ==
    IF w.status.fan_speed = "Manual" /\ IsSome(w.device)
    THEN Bind(get_fan_rpm_set(w), LAMBDA g :
         IF ~IsSome(g.val) THEN g.w
         ELSE Bind(set_fan_rpm(g.w, Unwrap(g.val)), LAMBDA s :
              IF s.ok
              THEN [s.w EXCEPT !.manual_fan_rpm = Unwrap(g.val),
                               !.status.fan_rpm = Some(Unwrap(g.val)),
                               !.last_fan_enforce_time = w.now]
              ELSE s.w))
    ELSE w

set_logo_mode(w, mode) ==
    IF ~IsSome(string_to_logo_mode(mode)) THEN w
    ELSE
    Bind(set_logo_mode_cmd(w, Unwrap(string_to_logo_mode(mode))), LAMBDA r :
    Bind(execute_device_command_simple(IsSome(w.device), r,
             "Logo mode set to " \o mode, "Failed to set logo mode"), LAMBDA e :
    IF e.ok
    THEN set_optional_status_message([Ran(w, r) EXCEPT !.status.logo_mode = mode],
                                     e.message)
    ELSE set_error_message(Ran(w, r), e.message)))

set_brightness(w, brightness) ==
    Bind(set_keyboard_brightness(w, brightness), LAMBDA r :
    Bind(execute_device_command_simple(IsSome(w.device), r,
             "Brightness set to step "
                 \o ToString(raw_brightness_to_step_index(brightness)),
             "Failed to set brightness"), LAMBDA e :
    IF e.ok
    THEN set_optional_status_message(
             [Ran(w, r) EXCEPT !.status.keyboard_brightness = brightness,
                               !.temp_brightness_step =
                                   raw_brightness_to_step_index(brightness)],
             e.message)
    ELSE set_error_message(Ran(w, r), e.message)))

\* The checkbox has already flipped status.lights_always_on when this runs.
toggle_lights_always_on(w) ==
    IF ~IsSome(w.device) THEN set_no_device_message(w)
    ELSE
    Bind(set_lights_always_on(w, IF w.status.lights_always_on THEN Enable ELSE Disable),
         LAMBDA r :
    IF r.ok
    THEN update_stored_device_state(
             set_optional_status_message(r.w,
                 "Keyboard Backlight Always On "
                     \o (IF w.status.lights_always_on THEN "enabled" ELSE "disabled")))
    ELSE [set_status_message(r.w, "Failed to set lights always on: " \o ErrText)
              EXCEPT !.status.lights_always_on = ~@])

\* The checkbox has already flipped status.battery_care when this runs.
toggle_battery_care(w) ==
    IF ~IsSome(w.device) THEN set_no_device_message(w)
    ELSE
    Bind(set_battery_care(w, IF w.status.battery_care THEN Enable ELSE Disable),
         LAMBDA r :
    IF r.ok
    THEN set_optional_status_message(r.w,
             "Battery care "
                 \o (IF w.status.battery_care THEN "enabled" ELSE "disabled"))
    ELSE [set_status_message(r.w, "Failed to set battery care: " \o ErrText)
              EXCEPT !.status.battery_care = ~@])

(***************************************************************************)
(* update(): one tick of the scheduler, up to the rendering of the panels. *)
(***************************************************************************)
PERF_POLL_INTERVAL == 25
AUTO_REFRESH_INTERVAL == 5
FAN_ENFORCE_INTERVAL == 10
STATE_CHECK_INTERVAL == 30

PollPerfMode(w) ==
    Bind(get_perf_mode(w), LAMBDA p :
    IF p.ok /\ w.status.performance_mode # perf_mode_to_string(p.val[1])
    THEN Bind(get_fan_status_from_mode(
                  [p.w EXCEPT !.status.performance_mode = perf_mode_to_string(p.val[1])],
                  p.val[2]), LAMBDA f :
         [f.w EXCEPT !.status.fan_speed = f.fan_speed, !.status.fan_rpm = f.fan_rpm])
    ELSE p.w)

\* A variant that polls on every minimized pass.
MinimizedPoll_every_pass(w) ==
    [(IF IsSome(w.device) THEN PollPerfMode(w) ELSE w)
         EXCEPT !.last_perf_poll_time = w.now]

MinimizedPoll(w) ==
    IF w.now - w.last_perf_poll_time >= PERF_POLL_INTERVAL
    THEN [(IF IsSome(w.device) THEN PollPerfMode(w) ELSE w)
              EXCEPT !.last_perf_poll_time = w.now]
    ELSE w

\* A variant that keeps the old flag when the switch could not write the mode.
PowerCheck_flag_on_success(w) ==
    IF w.power # w.ac_power
    THEN Bind(auto_switch_profile([w EXCEPT !.ac_power = w.power]), LAMBDA s :
         IF s.devlog[Len(w.devlog) + 1][3] THEN s ELSE [s EXCEPT !.ac_power = w.ac_power])
    ELSE w

PowerCheck(w) ==
    IF w.power # w.ac_power
    THEN auto_switch_profile([w EXCEPT !.ac_power = w.power])
    ELSE w

FanReadout(w_) ==
    Bind(w_, LAMBDA w :
    Bind(get_fan_rpm_actual(w), LAMBDA a :
    Bind(read_current_fan_state([a.w EXCEPT !.status.fan_actual_rpm = a.val]), LAMBDA c :
    Bind(get_fan_status_from_mode(c.w, c.fan_mode), LAMBDA f :
    [f.w EXCEPT !.status.fan_speed = f.fan_speed]))))

FanEnforce(w_) ==
    Bind(w_, LAMBDA w :
    IF w.now - w.last_fan_enforce_time >= FAN_ENFORCE_INTERVAL
    THEN enforce_manual_fan_rpm(w) ELSE w)

BrightnessRefresh(w_) ==
    Bind(w_, LAMBDA w :
    IF ~w.brightness_slider_active THEN StoreBrightness(w, get_keyboard_brightness(w))
    ELSE w)

\* A variant that advances the timestamp only when the snapshot could be read.
DiffPass_stamp_on_success(w) ==
    Bind(check_device_state_changes(w), LAMBDA c :
    IF c.ok THEN [c.w EXCEPT !.last_state_check_time = w.now]
    ELSE read_essential_device_state(c.w).w)

\* The diff pass, with its fallback when the snapshot cannot be read.
DiffPass(w) ==
    Bind(check_device_state_changes(w), LAMBDA c :
    [(IF c.ok THEN c.w ELSE read_essential_device_state(c.w).w)
         EXCEPT !.last_state_check_time = w.now])

\* A variant that checks the state whatever the lights-always-on flag says.
StateCheck_unflagged(w) ==
    Bind(sync_other_dynamic_state(w), LAMBDA w1 :
    IF w1.now - w1.last_state_check_time >= STATE_CHECK_INTERVAL
    THEN DiffPass(w1) ELSE w1)

StateCheck(w_) ==
    Bind(w_, LAMBDA w :
    IF w.status.lights_always_on
    THEN Bind(sync_other_dynamic_state(w), LAMBDA w1 :
         IF w1.now - w1.last_state_check_time >= STATE_CHECK_INTERVAL
         THEN DiffPass(w1) ELSE w1)
    ELSE w)

AutoRefresh(w) ==
    IF w.now - w.last_refresh_time >= AUTO_REFRESH_INTERVAL
    THEN [(IF IsSome(w.device) /\ ~loading
           THEN StateCheck(BrightnessRefresh(FanEnforce(FanReadout(PowerCheck(w)))))
           ELSE w) EXCEPT !.last_refresh_time = w.now]
    ELSE w

\* A variant that polls whether or not start-up has been applied.
Polls_before_init(w, minimized) ==
    IF minimized THEN MinimizedPoll(w) ELSE AutoRefresh(w)

Polls(w_, minimized) ==
    Bind(w_, LAMBDA w :
    IF ~w.fully_initialized THEN w
    ELSE IF minimized THEN MinimizedPoll(w) ELSE AutoRefresh(w))

\* A variant that runs MessageManager::update after the polls.
update_tick_last(w, minimized) ==
    Bind(Polls(ReceiveProbeResult(process_background_initialization(w)), minimized),
         LAMBDA w1 :
    [w1 EXCEPT !.message_manager = MessageManager_update(@, w.now)])

update(w, minimized) ==
    Polls([ReceiveProbeResult(process_background_initialization(w))
               EXCEPT !.message_manager = MessageManager_update(@, w.now)], minimized)
(***************************************************************************)
(* The state machine.                                                      *)
(***************************************************************************)
vars == << status, device, device_state, available_performance_modes, ac_power,
           fully_initialized, init_power_read, init_specs_complete, system_specs,
           message_manager, last_refresh_time, last_state_check_time,
           last_fan_enforce_time, last_perf_poll_time, status_messages, manual_fan_rpm,
           temp_brightness_step, brightness_slider_active, probe_receiver,
           init_worker, init_channel, probes, now, dev, supported, power,
           devlog, applied, reader_errors, inputs, last >>

\* The world a UI-thread handler starts on, the calls in f failing during it.
World(f) ==
    [status |-> status, device |-> device, device_state |-> device_state,
     available_performance_modes |-> available_performance_modes, ac_power |-> ac_power,
     fully_initialized |-> fully_initialized, init_power_read |-> init_power_read,
     init_specs_complete |-> init_specs_complete, system_specs |-> system_specs,
     message_manager |-> message_manager, last_refresh_time |-> last_refresh_time,
     last_state_check_time |-> last_state_check_time,
     last_fan_enforce_time |-> last_fan_enforce_time,
     last_perf_poll_time |-> last_perf_poll_time, status_messages |-> status_messages,
     manual_fan_rpm |-> manual_fan_rpm, temp_brightness_step |-> temp_brightness_step,
     brightness_slider_active |-> brightness_slider_active,
     probe_receiver |-> probe_receiver, init_channel |-> init_channel, probes |-> probes,
     now |-> now, dev |-> dev, supported |-> supported, power |-> power,
     applied |-> applied, reader_errors |-> reader_errors,
     devlog |-> << >>, calls |-> 0, fails |-> f]

\* The state a handler leaves: it owns the application's fields, writes the hardware,
\* spawns probe workers and empties the channels it reads. The handler has run once
\* when its result is stored.
Commit(w_) ==
    \E w \in {w_} :
    /\ status' = w.status
    /\ device_state' = w.device_state
    /\ available_performance_modes' = w.available_performance_modes
    /\ ac_power' = w.ac_power
    /\ fully_initialized' = w.fully_initialized
    /\ init_power_read' = w.init_power_read
    /\ init_specs_complete' = w.init_specs_complete
    /\ system_specs' = w.system_specs
    /\ message_manager' = w.message_manager
    /\ last_refresh_time' = w.last_refresh_time
    /\ last_state_check_time' = w.last_state_check_time
    /\ last_fan_enforce_time' = w.last_fan_enforce_time
    /\ last_perf_poll_time' = w.last_perf_poll_time
    /\ status_messages' = w.status_messages
    /\ manual_fan_rpm' = w.manual_fan_rpm
    /\ temp_brightness_step' = w.temp_brightness_step
    /\ brightness_slider_active' = w.brightness_slider_active
    /\ probe_receiver' = w.probe_receiver
    /\ init_channel' = w.init_channel
    /\ probes' = w.probes
    /\ dev' = w.dev
    /\ devlog' = w.devlog
    /\ applied' = w.applied
    /\ reader_errors' = w.reader_errors
    /\ UNCHANGED << device, init_worker, now, supported, power >>

\* The device calls that fail during one handler: none, or a run of consecutive calls
\* (a transient outage) that starts at one of the first n calls.
MaxFailRun == 2
FailPlans(n) ==
    {{}} \cup { a..(a + len - 1) : a \in 1..n, len \in 1..MaxFailRun }

\* RazerGuiApp::new on a world holding the defaults: init_device,
\* read_initial_device_state, start_background_initialization.
RazerGuiApp_new(w, detected, descriptor) ==
    Bind(IF detected THEN [w EXCEPT !.device = Some(descriptor)]
         ELSE set_error_message(w, "Failed to connect to Razer device: " \o ErrText),
         LAMBDA w1 :
    set_status_message(
        read_initial_device_state(
            [w1 EXCEPT !.available_performance_modes =
                           detect_available_performance_modes(w1.device)]),
        "Initializing..."))

DefaultWorld(d, sup, pw, f) ==
    [status |-> DeviceStatus_default, device |-> None, device_state |-> None,
     available_performance_modes |-> << >>, ac_power |-> TRUE,
     fully_initialized |-> FALSE, init_power_read |-> FALSE,
     init_specs_complete |-> FALSE, system_specs |-> FALSE,
     message_manager |-> MessageManager_new, last_refresh_time |-> 0,
     last_state_check_time |-> 0, last_fan_enforce_time |-> 0,
     last_perf_poll_time |-> 0, status_messages |-> FALSE,
     manual_fan_rpm |-> 2000, temp_brightness_step |-> 0,
     brightness_slider_active |-> FALSE,
     probe_receiver |-> None, init_channel |-> << >>, probes |-> << >>,
     now |-> 0, dev |-> d, supported |-> sup, power |-> pw,
     applied |-> << >>, reader_errors |-> << >>,
     devlog |-> << >>, calls |-> 0, fails |-> f]

\* The state after construction, the start-up worker spawned and not yet run.
Constructed(detected, descriptor, d, sup, pw, f) ==
    \E w \in {RazerGuiApp_new(DefaultWorld(d, sup, pw, f), detected, descriptor)} :
        /\ status = w.status
        /\ device = w.device
        /\ device_state = w.device_state
        /\ available_performance_modes = w.available_performance_modes
        /\ ac_power = w.ac_power
        /\ fully_initialized = w.fully_initialized
        /\ init_power_read = w.init_power_read
        /\ init_specs_complete = w.init_specs_complete
        /\ system_specs = w.system_specs
        /\ message_manager = w.message_manager
        /\ last_refresh_time = w.last_refresh_time
        /\ last_state_check_time = w.last_state_check_time
        /\ last_fan_enforce_time = w.last_fan_enforce_time
        /\ last_perf_poll_time = w.last_perf_poll_time
        /\ status_messages = w.status_messages
        /\ manual_fan_rpm = w.manual_fan_rpm
        /\ temp_brightness_step = w.temp_brightness_step
        /\ brightness_slider_active = w.brightness_slider_active
        /\ probe_receiver = w.probe_receiver
        /\ init_worker = "power"
        /\ init_channel = w.init_channel
        /\ probes = w.probes
        /\ now = w.now
        /\ dev = w.dev
        /\ supported = w.supported
        /\ power = w.power
        /\ devlog = w.devlog
        /\ applied = w.applied
        /\ reader_errors = w.reader_errors
        /\ inputs = 0
        /\ last = [op |-> "new", arg |-> "", fails |-> f \cap (1..w.calls)]

\* The probe workers spawned in one run are bounded.
MaxProbes == 1

\* A handler of the UI thread run to its end under each failure plan.  A probe worker
\* still running sees another writer when the handler wrote the hardware.
Wrote(log) == \E i \in 1..Len(log) : log[i][1] \notin
                 {"diff", "get_perf_mode", "get_fan_rpm", "get_fan_actual_rpm", "get_logo_mode",
                  "get_keyboard_brightness", "get_lights_always_on", "get_battery_care"}
                 /\ log[i][3]

Disturb(ps) == [k \in 1..Len(ps) |->
                   IF ps[k].pc # "done"
                   THEN [ps[k] EXCEPT !.disturbed = TRUE, !.touched = TRUE] ELSE ps[k]]

Finish(w_, op, arg) ==
    \E w \in {w_} :
    /\ Len(w.probes) <= MaxProbes
    /\ Commit(IF Wrote(w.devlog) THEN [w EXCEPT !.probes = Disturb(@)] ELSE w)
    /\ last' = [op |-> op, arg |-> arg, fails |-> w.fails \cap (1..w.calls)]
    /\ UNCHANGED inputs

\* The same for a request of the user, which counts as an input.
MaxInputs == 2
Input ==
    /\ inputs < MaxInputs
    /\ inputs' = inputs + 1

Request(w_, op, arg) ==
    \E w \in {w_} :
    /\ Input
    /\ Len(w.probes) <= MaxProbes
    /\ Commit(IF Wrote(w.devlog) THEN [w EXCEPT !.probes = Disturb(@)] ELSE w)
    /\ last' = [op |-> op, arg |-> arg, fails |-> w.fails \cap (1..w.calls)]

\* ---- the scheduler tick ----
TickUnder(minimized, plans) ==
    \E f \in plans :
        Finish(update(World(f), minimized),
               IF minimized THEN "update minimized" ELSE "update", "")

Tick(minimized) == TickUnder(minimized, FailPlans(update(World({}), minimized).calls))

\* The tick when at most the last device call of the pass fails.
TickLastCall == TickUnder(FALSE, {{}, {update(World({}), FALSE).calls}})

\* The tick when the device is out at most at the start of the pass.
TickFirstCall(minimized) == TickUnder(minimized, FailPlans(1))

\* The tick when any of the first calls of the pass may fail.
MaxFailCall == 5
TickEarlyFail(minimized) ==
    TickUnder(minimized, { f \in SUBSET (1..MaxFailCall) : Cardinality(f) <= MaxFailRun })

\* The tick when at most one device call of the pass fails, whichever it is.
TickOneFail(minimized) ==
    TickUnder(minimized,
              {{}} \cup { {k} : k \in 1..update(World({}), minimized).calls })

\* The tick when every device call succeeds.
TickNoFail(minimized) == TickUnder(minimized, {{}})

\* The tick when every device call succeeds, noting the kind of the newest backlog
\* entry it found.
TickNoting ==
    Finish(update(World({}), FALSE), "update",
           IF message_manager.message_queue = << >> THEN ""
           ELSE message_manager.message_queue[Len(message_manager.message_queue)]
                    .message_type)

\* ---- requests of the presentation layer ----
RequestSetPerformanceMode(mode) ==
    /\ \E i \in 1..Len(available_performance_modes) :
           available_performance_modes[i] = mode
    /\ status.performance_mode # perf_mode_to_string(mode)
    /\ \E f \in FailPlans(set_performance_mode(World({}), perf_mode_to_string(mode)).calls) :
           Request(set_performance_mode(World(f), perf_mode_to_string(mode)),
                  "set_performance_mode", perf_mode_to_string(mode))

RequestForceReprobe ==
    \E f \in FailPlans(start_probe_perf_modes(World({}), TRUE).calls) :
           Request(start_probe_perf_modes(World(f), TRUE), "start_probe_perf_modes", "force")

\* A re-probe requested while up to MaxRacing workers may still be running; the
\* pre-check succeeds.  The tick beside it makes every device call with success.
MaxRacing == 2
TickRacing ==
    /\ \E w \in {update(World({}), FALSE)} :
          /\ Len(w.probes) <= MaxRacing
          /\ Commit(IF Wrote(w.devlog) THEN [w EXCEPT !.probes = Disturb(@)] ELSE w)
    /\ last' = [op |-> "update", arg |-> "", fails |-> {}]
    /\ UNCHANGED inputs

RequestReprobeRacing ==
    /\ Input
    /\ Len(probes) < MaxRacing
    /\ \E w \in {start_probe_perf_modes(World({}), TRUE)} :
          Commit(IF Wrote(w.devlog) THEN [w EXCEPT !.probes = Disturb(@)] ELSE w)
    /\ last' = [op |-> "start_probe_perf_modes", arg |-> "force", fails |-> {}]

RequestSetFanMode(mode) ==
    /\ status.fan_speed # (IF mode = "auto" THEN "Auto" ELSE "Manual")
    /\ \E f \in FailPlans(set_fan_mode_request(World({}), mode, Some(manual_fan_rpm)).calls) :
           Request(set_fan_mode_request(World(f), mode,
                      IF mode = "auto" THEN None ELSE Some(manual_fan_rpm)),
                  "set_fan_mode", mode)

\* The RPM slider, shown in manual mode, released at rpm.
RequestSetFanRpm(rpm) ==
    /\ status.fan_speed = "Manual"
    /\ \E f \in FailPlans(1) :
           Request(set_fan_rpm_only([World(f) EXCEPT !.manual_fan_rpm = rpm], rpm),
                  "set_fan_rpm_only", ToString(rpm))

RequestSetLogoMode(mode) ==
    /\ status.logo_mode # mode
    /\ \E f \in FailPlans(1) : Request(set_logo_mode(World(f), mode), "set_logo_mode", mode)

\* The brightness slider dragged to a step: the interaction flag is raised and a
\* changed value is sent at once.
RequestSetBrightness(step) ==
    /\ step # temp_brightness_step
    /\ \E f \in FailPlans(1) :
           Request(set_brightness([World(f) EXCEPT !.temp_brightness_step = step,
                                                  !.brightness_slider_active = TRUE],
                                 BRIGHTNESS_LEVELS[step + 1]),
                  "set_brightness", ToString(step))

\* The brightness slider released without a change of value.
ReleaseBrightnessSlider ==
    /\ brightness_slider_active
    /\ Request([World({}) EXCEPT !.brightness_slider_active = FALSE], "slider released", "")

RequestToggleLightsAlwaysOn ==
    \E f \in FailPlans(toggle_lights_always_on(World({})).calls) :
        Request(toggle_lights_always_on([World(f) EXCEPT !.status.lights_always_on = ~@]),
               "toggle_lights_always_on", "")

RequestToggleBatteryCare ==
    \E f \in FailPlans(1) :
        Request(toggle_battery_care([World(f) EXCEPT !.status.battery_care = ~@]),
               "toggle_battery_care", "")

\* The verbosity checkbox of the footer.
ToggleStatusMessages ==
    Request([World({}) EXCEPT !.status_messages = ~@], "status_messages", "")


\* The refresh pass of a started application with nothing to drain, its enforcement
\* due, during which another tool sets the fan RPM between the enforcement's read and
\* its write-back.
TickIntruded(rpm) ==
    /\ fully_initialized
    /\ init_channel = << >>
    /\ probe_receiver = None
    /\ IsSome(device) /\ ~loading
    /\ now - last_refresh_time >= AUTO_REFRESH_INTERVAL
    /\ now - last_fan_enforce_time >= FAN_ENFORCE_INTERVAL
    /\ dev.fan_rpm # rpm
    /\ Request([StateCheck(BrightnessRefresh(enforce_manual_fan_rpm_between(
                     FanReadout(PowerCheck(
                         [World({}) EXCEPT !.message_manager = MessageManager_update(@, now)])),
                     rpm)))
                   EXCEPT !.last_refresh_time = now],
               "update", "intruded")
\* ---- the start-up worker (start_background_initialization) ----
EnvUnchanged ==
    UNCHANGED << status, device, device_state, available_performance_modes, ac_power,
                 fully_initialized, init_power_read, init_specs_complete, system_specs,
                 message_manager, last_refresh_time, last_state_check_time,
                 last_fan_enforce_time, last_perf_poll_time, status_messages,
                 manual_fan_rpm, temp_brightness_step, brightness_slider_active,
                 probe_receiver, supported, devlog, applied, reader_errors >>

InitWorkerSend(pc, message, next) ==
    /\ init_worker = pc
    /\ init_channel' = Append(init_channel, message)
    /\ init_worker' = next
    /\ last' = [op |-> "worker", arg |-> "", fails |-> {}]
    /\ EnvUnchanged
    /\ UNCHANGED << probes, now, dev, power, inputs >>

InitWorkerPower ==
    InitWorkerSend("power", [type |-> "PowerStateRead", ac_power |-> power], "complete")
InitWorkerComplete ==
    InitWorkerSend("complete", [type |-> "InitializationComplete"], "specs")
InitWorkerSpecs ==
    InitWorkerSend("specs", [type |-> "SystemSpecsComplete"], "done")

\* ---- a probe worker (the thread start_probe_perf_modes spawns) ----
\* A write of one worker is another writer's write to every other worker.
ProbeStep(k, p, d, what) ==
    /\ probes' = [(IF what \in {"probe try", "probe restore"} THEN Disturb(probes)
                   ELSE probes) EXCEPT ![k] = p]
    /\ dev' = d
    /\ last' = [op |-> "worker", arg |-> "", fails |-> {}]
    /\ EnvUnchanged
    /\ UNCHANGED << init_worker, init_channel, now, power, inputs >>

\* A worker meets at most MaxProbeFails failing calls.
MaxProbeFails == 1
Outcome(p, ok) == [p EXCEPT !.failed = IF ok THEN @ ELSE @ + 1]
MayFail(k, ok) == ok \/ probes[k].failed < MaxProbeFails

\* Device::detect() on a fresh handle.
ProbeDetect(k, ok) ==
    /\ probes[k].pc = "detect"
    /\ MayFail(k, ok)
    /\ ProbeStep(k, [Outcome(probes[k], ok) EXCEPT !.pc = IF ok THEN "read" ELSE "send"], dev,
                 "probe detect")

ProbeReadMode(k, ok) ==
    /\ probes[k].pc = "read"
    /\ MayFail(k, ok)
    /\ ProbeStep(k, IF ok THEN [probes[k] EXCEPT !.pc = "loop",
                                                  !.current_mode = dev.perf_mode]
                    ELSE [Outcome(probes[k], ok) EXCEPT !.pc = "send"],
                 dev, "probe read")

\* A variant that keeps a candidate whether or not its write succeeded.
ProbeTryMode_keep_failed(k, ok) ==
    /\ probes[k].pc = "loop"
    /\ MayFail(k, ok)
    /\ LET p == Outcome(probes[k], ok \/ probes[k].i = probes[k].current_mode)
           m == p.i
           done == [p EXCEPT !.i = m + 1,
                             !.pc = IF m + 1 \in PerfModes THEN "loop" ELSE "restore"]
           success == ok /\ m \in supported
       IN  IF m = p.current_mode
           THEN /\ ok
                /\ ProbeStep(k, [done EXCEPT !.modes = Append(@, m)], dev, "probe keep")
           ELSE ProbeStep(k, [done EXCEPT !.modes = Append(@, m),
                                          !.writes = Append(@, << m, success >>)],
                          IF success THEN PerfModeWritten(dev, m) ELSE dev, "probe try")

\* One turn of `for m in PerfMode::iter()`: the current mode is taken as supported
\* without a write, any other mode is written and kept when the write succeeds.
ProbeTryMode(k, ok) ==
    /\ probes[k].pc = "loop"
    /\ MayFail(k, ok)
    /\ LET p == Outcome(probes[k], ok \/ probes[k].i = probes[k].current_mode)
           m == p.i
           done == [p EXCEPT !.i = m + 1,
                             !.pc = IF m + 1 \in PerfModes THEN "loop" ELSE "restore"]
           success == ok /\ m \in supported
       IN  IF m = p.current_mode
           THEN /\ ok
                /\ ProbeStep(k, [done EXCEPT !.modes = Append(@, m)], dev, "probe keep")
           ELSE ProbeStep(k, [done EXCEPT !.modes = IF success THEN Append(@, m) ELSE @,
                                          !.writes = Append(@, << m, success >>)],
                          IF success THEN PerfModeWritten(dev, m) ELSE dev, "probe try")

\* A variant that restores only when a candidate write has succeeded.
ProbeRestore_if_changed(k, ok) ==
    /\ probes[k].pc = "restore"
    /\ MayFail(k, ok)
    /\ LET p == Outcome(probes[k], ok)
           success == ok /\ p.current_mode \in supported
       IN  IF \E i \in DOMAIN p.writes : p.writes[i][2]
           THEN ProbeStep(k, [p EXCEPT !.pc = "send",
                                       !.writes = Append(@, << p.current_mode, success >>),
                                       !.touched = FALSE],
                          IF success THEN PerfModeWritten(dev, p.current_mode) ELSE dev,
                          "probe restore")
           ELSE ProbeStep(k, [p EXCEPT !.pc = "send", !.touched = FALSE], dev, "probe send")

ProbeRestore(k, ok) ==
    /\ probes[k].pc = "restore"
    /\ MayFail(k, ok)
    /\ LET p == Outcome(probes[k], ok)
           success == ok /\ p.current_mode \in supported
       IN  ProbeStep(k, [p EXCEPT !.pc = "send",
                                  !.writes = Append(@, << p.current_mode, success >>),
                                  !.touched = FALSE],
                     IF success THEN PerfModeWritten(dev, p.current_mode) ELSE dev,
                     "probe restore")

\* res_tx.send(modes): lost when the receiver has been dropped.
ProbeSend(k) ==
    /\ probes[k].pc = "send"
    /\ ProbeStep(k, [probes[k] EXCEPT !.pc = "done",
                                      !.channel = IF probe_receiver = Some(k)
                                                  THEN Some(probes[k].modes) ELSE None],
                 dev, "probe send")

\* ---- the surroundings ----
\* Another tool (or a hardware hotkey) changes one setting of the device.
ExternalWrite(field, value) ==
    /\ Input
    /\ dev[field] # value
    /\ dev' = [dev EXCEPT ![field] = value]
    /\ probes' = Disturb(probes)
    /\ last' = [op |-> "external", arg |-> field, fails |-> {}]
    /\ EnvUnchanged
    /\ UNCHANGED << init_worker, init_channel, now, power >>

\* The power source changes between AC and battery.
PowerFlip ==
    /\ Input
    /\ power' = ~power
    /\ last' = [op |-> "power", arg |-> "", fails |-> {}]
    /\ EnvUnchanged
    /\ UNCHANGED << init_worker, init_channel, probes, now, dev >>

MaxNow == 60

AdvanceTime(d) ==
    /\ now + d <= MaxNow
    /\ now' = now + d
    /\ last' = [op |-> "advance", arg |-> "", fails |-> {}]
    /\ EnvUnchanged
    /\ UNCHANGED << init_worker, init_channel, probes, dev, power, inputs >>

(***************************************************************************)
(* The notification centre on its own: post, tick and the passing of time. *)
(***************************************************************************)
MaxMsgNow == 120
MaxPosts == 3
MsgSteps == {10, 21}
MsgName(i) == "m" \o ToString(i)

TheDevice ==
    [perf_mode |-> Balanced, fan_mode |-> FanAuto, fan_rpm |-> 2000, fan_actual_rpm |-> 2000,
     logo_mode |-> LogoOff, keyboard_brightness |-> 50, lights_always_on |-> Disable,
     battery_care |-> Enable]

MsgUnchanged ==
    UNCHANGED << status, device, device_state, available_performance_modes, ac_power,
                 fully_initialized, init_power_read, init_specs_complete, system_specs,
                 last_refresh_time, last_state_check_time, last_fan_enforce_time,
                 last_perf_poll_time, status_messages, manual_fan_rpm,
                 temp_brightness_step, brightness_slider_active, probe_receiver,
                 init_worker, init_channel, probes, dev, supported, power, devlog,
                 applied, reader_errors >>

\* MessageManager::new, before the application posts anything.
InitMsg ==
    \E w \in {DefaultWorld(TheDevice, PerfModes, TRUE, {})} :
        /\ status = w.status
        /\ device = w.device
        /\ device_state = w.device_state
        /\ available_performance_modes = w.available_performance_modes
        /\ ac_power = w.ac_power
        /\ fully_initialized = w.fully_initialized
        /\ init_power_read = w.init_power_read
        /\ init_specs_complete = w.init_specs_complete
        /\ system_specs = w.system_specs
        /\ message_manager = MessageManager_new
        /\ last_refresh_time = w.last_refresh_time
        /\ last_state_check_time = w.last_state_check_time
        /\ last_fan_enforce_time = w.last_fan_enforce_time
        /\ last_perf_poll_time = w.last_perf_poll_time
        /\ status_messages = w.status_messages
        /\ manual_fan_rpm = w.manual_fan_rpm
        /\ temp_brightness_step = w.temp_brightness_step
        /\ brightness_slider_active = w.brightness_slider_active
        /\ probe_receiver = w.probe_receiver
        /\ init_worker = "done"
        /\ init_channel = w.init_channel
        /\ probes = w.probes
        /\ now = 0
        /\ dev = w.dev
        /\ supported = w.supported
        /\ power = w.power
        /\ devlog = w.devlog
        /\ applied = w.applied
        /\ reader_errors = w.reader_errors
        /\ inputs = 0
        /\ last = [op |-> "new", arg |-> "", fails |-> {}]

\* post(m): m is created now, with the duration of its priority.
PostUpTo(limit, priority) ==
    /\ inputs < limit
    /\ inputs' = inputs + 1
    /\ message_manager' =
         add_message(message_manager,
                     IF priority = "Normal" THEN status_message(MsgName(inputs + 1), now)
                     ELSE error_message(MsgName(inputs + 1), now), now)
    /\ last' = [op |-> "post", arg |-> MsgName(inputs + 1), fails |-> {}]
    /\ UNCHANGED now
    /\ MsgUnchanged

Post(priority) == PostUpTo(MaxPosts, priority)

\* tick(): MessageManager::update; arg notes how many entries left the backlog.
TickMsg ==
    /\ message_manager' = MessageManager_update(message_manager, now)
    /\ last' = [op |-> "tick",
                arg |-> ToString(Len(message_manager.message_queue)
                                    - Len(message_manager'.message_queue)),
                fails |-> {}]
    /\ UNCHANGED << now, inputs >>
    /\ MsgUnchanged

Elapse(d) ==
    /\ now + d <= MaxMsgNow
    /\ now' = now + d
    /\ last' = [op |-> "advance", arg |-> "", fails |-> {}]
    /\ UNCHANGED << message_manager, inputs >>
    /\ MsgUnchanged

NextMsg ==
    \/ \E p \in {"Normal", "Critical"} : Post(p)
    \/ TickMsg
    \/ \E d \in MsgSteps : Elapse(d)

SpecMsg == InitMsg /\ [][NextMsg]_vars

\* A burst of posts, long enough to fill the backlog.
MaxBurst == 12
BurstStep == 51
MaxBurstNow == 102

BurstPost(priority) == PostUpTo(MaxBurst, priority)

BurstElapse ==
    /\ now + BurstStep <= MaxBurstNow
    /\ now' = now + BurstStep
    /\ last' = [op |-> "advance", arg |-> "", fails |-> {}]
    /\ UNCHANGED << message_manager, inputs >>
    /\ MsgUnchanged

NextBurst ==
    \/ \E p \in {"Normal", "Critical"} : BurstPost(p)
    \/ TickMsg
    \/ BurstElapse

SpecBurst == InitMsg /\ [][NextBurst]_vars


(***************************************************************************)
(* The application: construction, the start-up worker, the scheduler,      *)
(* the requests of the presentation layer and the surroundings.            *)
(***************************************************************************)
Descriptors == { [perf_modes |-> None], [perf_modes |-> Some(<< Balanced, Performance >>)] }

Hardware(perf, fan, lights) ==
    [TheDevice EXCEPT !.perf_mode = perf, !.fan_mode = fan[1], !.fan_rpm = fan[2],
                      !.lights_always_on = lights]

FanSettings == { << FanAuto, 0 >>, << FanManual, 3000 >> }

\* ---- mode probing ----
InitProbe ==
    \E descriptor \in Descriptors, perf \in {Balanced, Custom}, fan \in FanSettings,
       sup \in {PerfModes, {Balanced}} :
        Constructed(TRUE, descriptor, Hardware(perf, fan, Disable), sup, TRUE, {})

NextProbe ==
    \/ InitWorkerPower
    \/ InitWorkerComplete
    \/ InitWorkerSpecs
    \/ TickLastCall
    \/ RequestForceReprobe
    \/ ExternalWrite("perf_mode", Custom)
    \/ \E k \in DOMAIN probes, ok \in BOOLEAN :
          \/ ProbeDetect(k, ok)
          \/ ProbeReadMode(k, ok)
          \/ ProbeTryMode(k, ok)
          \/ ProbeRestore(k, ok)
    \/ \E k \in DOMAIN probes : ProbeSend(k)

SpecProbe == InitProbe /\ [][NextProbe]_vars

\* ---- start-up ----
InitStartup ==
    \E detected \in BOOLEAN, pw \in BOOLEAN, f \in FailPlans(1) :
        Constructed(detected, [perf_modes |-> Some(<< Balanced, Performance >>)],
                    Hardware(Balanced, << FanManual, 3000 >>, Enable), PerfModes, pw, f)

StartupSteps == {30}

NextStartup ==
    \/ InitWorkerPower
    \/ InitWorkerComplete
    \/ InitWorkerSpecs
    \/ \E minimized \in BOOLEAN : TickFirstCall(minimized)
    \/ \E d \in StartupSteps : AdvanceTime(d)
    \/ PowerFlip

SpecInit == InitStartup /\ [][NextStartup]_vars

\* ---- the user's mode requests ----
InitMode ==
    \E fan \in FanSettings :
        Constructed(TRUE, [perf_modes |-> Some(<< Balanced, Performance >>)],
                    Hardware(Balanced, fan, Disable), PerfModes, TRUE, {})

NextMode ==
    \/ InitWorkerPower
    \/ InitWorkerComplete
    \/ InitWorkerSpecs
    \/ TickNoFail(FALSE)
    \/ \E mode \in {Balanced, Performance} : RequestSetPerformanceMode(mode)
    \/ \E rpm \in {2500} : RequestSetFanRpm(rpm)

SpecMode == InitMode /\ [][NextMode]_vars

\* ---- the power source ----
InitPower ==
    \E pw \in BOOLEAN, brightness \in {0, 50} :
        Constructed(TRUE, [perf_modes |-> Some(<< Balanced, Performance >>)],
                    [Hardware(Balanced, << FanAuto, 0 >>, Disable)
                         EXCEPT !.keyboard_brightness = brightness],
                    PerfModes, pw, {})

PowerStep == 30

NextPower ==
    \/ InitWorkerPower
    \/ InitWorkerComplete
    \/ InitWorkerSpecs
    \/ TickEarlyFail(FALSE)
    \/ AdvanceTime(PowerStep)
    \/ PowerFlip

SpecPower == InitPower /\ [][NextPower]_vars

\* ---- external changes: the diff pass ----
InitDiff ==
    \E perf \in {Balanced, Performance} :
        Constructed(TRUE, [perf_modes |-> Some(<< Balanced, Performance >>)],
                    Hardware(perf, << FanAuto, 0 >>, Enable), PerfModes, TRUE, {})

DiffStep == 30

NextDiff ==
    \/ InitWorkerPower
    \/ InitWorkerComplete
    \/ InitWorkerSpecs
    \/ TickFirstCall(FALSE)
    \/ TickNoFail(TRUE)
    \/ AdvanceTime(DiffStep)
    \/ \E mode \in {Balanced, Battery} : ExternalWrite("perf_mode", mode)
    \/ ExternalWrite("logo_mode", LogoStatic)
    \/ ToggleStatusMessages

SpecDiff == InitDiff /\ [][NextDiff]_vars

\* ---- the reads of construction ----
\* read_initial_device_state makes at most MaxReaderCalls device calls: the four of
\* the reader, the second get_perf_mode and get_fan_rpm.  Any of them may fail.
MaxReaderCalls == 6

InitReader ==
    \E fan \in FanSettings, f \in SUBSET (1..MaxReaderCalls) :
        Constructed(TRUE, [perf_modes |-> Some(<< Balanced, Performance >>)],
                    [Hardware(Performance, fan, Enable) EXCEPT !.battery_care = Disable],
                    PerfModes, TRUE, f)

NextReader ==
    \/ InitWorkerPower
    \/ InitWorkerComplete
    \/ InitWorkerSpecs
    \/ TickNoFail(FALSE)

SpecReader == InitReader /\ [][NextReader]_vars

\* ---- the user's set requests ----
InitSet ==
    \E fan \in FanSettings :
        Constructed(TRUE, [perf_modes |-> Some(<< Balanced, Performance >>)],
                    Hardware(Balanced, fan, Disable), PerfModes, TRUE, {})

NextSet ==
    \/ InitWorkerPower
    \/ InitWorkerComplete
    \/ InitWorkerSpecs
    \/ \E mode \in {Balanced, Performance} : RequestSetPerformanceMode(mode)
    \/ \E mode \in {"auto", "manual"} : RequestSetFanMode(mode)
    \/ \E rpm \in {2500} : RequestSetFanRpm(rpm)
    \/ \E mode \in {"Static"} : RequestSetLogoMode(mode)
    \/ \E step \in {4} : RequestSetBrightness(step)
    \/ RequestToggleLightsAlwaysOn
    \/ RequestToggleBatteryCare
    \/ ToggleStatusMessages

SpecSet == InitSet /\ [][NextSet]_vars

\* ---- the power source, any device call of a pass failing ----
InitSwitch ==
    Constructed(TRUE, [perf_modes |-> Some(<< Balanced, Performance >>)],
                Hardware(Balanced, << FanAuto, 0 >>, Disable), PerfModes, TRUE, {})

NextSwitch ==
    \/ InitWorkerPower
    \/ InitWorkerComplete
    \/ InitWorkerSpecs
    \/ TickOneFail(FALSE)
    \/ AdvanceTime(PowerStep)
    \/ PowerFlip

SpecSwitch == InitSwitch /\ [][NextSwitch]_vars

\* ---- the brightness slider held while the scheduler runs ----
InitSlider ==
    \E lights \in {Disable, Enable} :
        Constructed(TRUE, [perf_modes |-> Some(<< Balanced, Performance >>)],
                    Hardware(Balanced, << FanAuto, 0 >>, lights), PerfModes, TRUE, {})

NextSlider ==
    \/ InitWorkerPower
    \/ InitWorkerComplete
    \/ InitWorkerSpecs
    \/ TickNoFail(FALSE)
    \/ AdvanceTime(DiffStep)
    \/ \E step \in {4} : RequestSetBrightness(step)
    \/ ReleaseBrightnessSlider
    \/ ExternalWrite("keyboard_brightness", 120)
    \/ PowerFlip

SpecSlider == InitSlider /\ [][NextSlider]_vars

\* ---- the fan held at a manual RPM ----
InitEnforce ==
    Constructed(TRUE, [perf_modes |-> Some(<< Balanced, Performance >>)],
                Hardware(Balanced, << FanManual, 3000 >>, Disable), PerfModes, TRUE, {})

NextEnforce ==
    \/ InitWorkerPower
    \/ InitWorkerComplete
    \/ InitWorkerSpecs
    \/ Tick(FALSE)
    \/ AdvanceTime(DiffStep)
    \/ ExternalWrite("fan_rpm", 3500)

SpecEnforce == InitEnforce /\ [][NextEnforce]_vars

\* ---- probes racing, the start-up worker not yet scheduled ----
InitRace ==
    Constructed(TRUE, [perf_modes |-> Some(<< Balanced, Performance >>)],
                Hardware(Balanced, << FanAuto, 0 >>, Disable), PerfModes, TRUE, {})

NextRace ==
    \/ TickRacing
    \/ RequestReprobeRacing
    \/ \E k \in DOMAIN probes, ok \in BOOLEAN :
          \/ ProbeDetect(k, ok)
          \/ ProbeReadMode(k, ok)
          \/ ProbeTryMode(k, ok)
          \/ ProbeRestore(k, ok)
    \/ \E k \in DOMAIN probes : ProbeSend(k)

SpecRace == InitRace /\ [][NextRace]_vars

\* ---- the order of the steps of a pass ----
InitOrder ==
    Constructed(TRUE, [perf_modes |-> Some(<< Balanced, Performance >>)],
                Hardware(Balanced, << FanAuto, 0 >>, Disable), PerfModes, TRUE, {})

NextOrder ==
    \/ InitWorkerPower
    \/ InitWorkerComplete
    \/ InitWorkerSpecs
    \/ TickNoting
    \/ AdvanceTime(PowerStep)
    \/ PowerFlip
    \/ \E mode \in {Performance} : RequestSetPerformanceMode(mode)

SpecOrder == InitOrder /\ [][NextOrder]_vars

\* ---- the first pass after start-up ----
InitFirst ==
    \E pw \in BOOLEAN :
        Constructed(TRUE, [perf_modes |-> None],
                    Hardware(Balanced, << FanManual, 3000 >>, Enable), PerfModes, pw, {})

NextFirst ==
    \/ InitWorkerPower
    \/ InitWorkerComplete
    \/ InitWorkerSpecs
    \/ \E minimized \in BOOLEAN : TickFirstCall(minimized)
    \/ AdvanceTime(DiffStep)
    \/ PowerFlip

SpecFirst == InitFirst /\ [][NextFirst]_vars

\* ---- the fan held at a manual RPM, pass after pass ----
EnforceStep == 5
MaxDriftNow == 20

InitDrift ==
    \E fan \in FanSettings :
        Constructed(TRUE, [perf_modes |-> Some(<< Balanced, Performance >>)],
                    Hardware(Balanced, fan, Disable), PerfModes, TRUE, {})

NextDrift ==
    \/ InitWorkerPower
    \/ InitWorkerComplete
    \/ InitWorkerSpecs
    \/ TickOneFail(FALSE)
    \/ (now < MaxDriftNow /\ AdvanceTime(EnforceStep))

SpecDrift == InitDrift /\ [][NextDrift]_vars

\* ---- another tool writing during the enforcement ----
InitIntrude ==
    Constructed(TRUE, [perf_modes |-> Some(<< Balanced, Performance >>)],
                Hardware(Balanced, << FanManual, 3000 >>, Disable), PerfModes, TRUE, {})

NextIntrude ==
    \/ InitWorkerPower
    \/ InitWorkerComplete
    \/ InitWorkerSpecs
    \/ TickNoFail(FALSE)
    \/ TickIntruded(3500)
    \/ AdvanceTime(DiffStep)
    \/ \E rpm \in {3500, 4000} : ExternalWrite("fan_rpm", rpm)

SpecIntrude == InitIntrude /\ [][NextIntrude]_vars

\* ---- a mode request while a probe is in flight ----
InitClash ==
    Constructed(TRUE, [perf_modes |-> Some(<< Balanced, Performance >>)],
                Hardware(Balanced, << FanAuto, 0 >>, Disable), PerfModes, TRUE, {})

NextClash ==
    \/ RequestForceReprobe
    \/ RequestSetPerformanceMode(Performance)
    \/ \E k \in DOMAIN probes, ok \in BOOLEAN :
          \/ ProbeDetect(k, ok)
          \/ ProbeReadMode(k, ok)
          \/ ProbeTryMode(k, ok)
          \/ ProbeRestore(k, ok)
    \/ \E k \in DOMAIN probes : ProbeSend(k)

SpecClash == InitClash /\ [][NextClash]_vars

\* ---- repeated passes after a change by another tool ----
InitLive ==
    \E lights \in {Disable, Enable} :
        Constructed(TRUE, [perf_modes |-> Some(<< Balanced, Performance >>)],
                    Hardware(Balanced, << FanAuto, 0 >>, lights), PerfModes, TRUE, {})

NextLive ==
    \/ InitWorkerPower
    \/ InitWorkerComplete
    \/ InitWorkerSpecs
    \/ TickNoFail(FALSE)
    \/ TickNoFail(TRUE)
    \/ AdvanceTime(DiffStep)
    \/ ExternalWrite("perf_mode", Battery)

\* The start-up worker runs to its end and time goes on; the event loop keeps calling
\* update, of a window that is open again and again or of one that is minimized
\* again and again.
SpecLive ==
    /\ InitLive
    /\ [][NextLive]_vars
    /\ WF_vars(InitWorkerPower) /\ WF_vars(InitWorkerComplete) /\ WF_vars(InitWorkerSpecs)
    /\ WF_vars(AdvanceTime(DiffStep))
    /\ (WF_vars(TickNoFail(FALSE)) \/ WF_vars(TickNoFail(TRUE)))

\* ---- the diff pass when the device cannot be read ----
InitFallback ==
    Constructed(TRUE, [perf_modes |-> Some(<< Balanced, Performance >>)],
                Hardware(Balanced, << FanManual, 3000 >>, Enable), PerfModes, TRUE, {})

NextFallback ==
    \/ InitWorkerPower
    \/ InitWorkerComplete
    \/ InitWorkerSpecs
    \/ TickOneFail(FALSE)
    \/ AdvanceTime(DiffStep)
    \/ ExternalWrite("perf_mode", Battery)
    \/ ExternalWrite("logo_mode", LogoStatic)

SpecFallback == InitFallback /\ [][NextFallback]_vars
(***************************************************************************)
(* Claims                                                                  *)
(***************************************************************************)
\* ---- helpers over the log of a handler ----
Diffs == { i \in DOMAIN devlog : devlog[i][1] = "diff" }
ShownText == IF IsSome(get_current_message(message_manager, now))
             THEN Unwrap(get_current_message(message_manager, now)).content ELSE ""

\* C1: a diff pass that reads a device state whose performance mode differs from the
\* baseline's posts exactly "Performance mode changed externally: <old> → <new>",
\* replaces the baseline with the live snapshot and sets the status label to the new mode.
C1_ExternalChangeReported ==
    last.op = "update" =>
        \A i \in Diffs :
            devlog[i][2][1].perf_mode # devlog[i][2][2].perf_mode =>
                /\ ShownText = "Performance mode changed externally: "
                                    \o PerfModeNames[devlog[i][2][1].perf_mode] \o " → "
                                    \o PerfModeNames[devlog[i][2][2].perf_mode]
                /\ device_state = Some(devlog[i][2][2])
                /\ status.performance_mode = PerfModeNames[devlog[i][2][2].perf_mode]

\* The pass has just found Battery on a device whose baseline said Balanced.
C1_Witness ==
    /\ last.op = "update"
    /\ \E i \in Diffs : /\ devlog[i][2][1].perf_mode = Balanced
                         /\ devlog[i][2][2].perf_mode = Battery
    /\ ShownText = "Performance mode changed externally: Balanced → Battery"
    /\ now >= STATE_CHECK_INTERVAL

\* ---- C2 ----
\* The calls of a mode request up to the restoring RPM write: five, six when the first
\* read of the fan mode failed and was retried.
RestoreEnd(log) == IF log[1][3] THEN 5 ELSE 6
RestoreCallsOk(log) ==
    /\ Len(log) >= RestoreEnd(log)
    /\ \A i \in 2..RestoreEnd(log) : log[i][3]

FanRestored(r) ==
    /\ dev'.fan_mode = FanManual
    /\ dev'.fan_rpm = r
    /\ status'.fan_speed = "Manual"
    /\ status'.fan_rpm = Some(r)

ProfileWrites == {"set_perf_mode", "set_logo_mode", "set_keyboard_brightness",
                  "set_lights_always_on", "set_battery_care"}

\* The writes of profile fields a pass made after its first two calls.
FallbackWrites(log) ==
    SelectSeq(SubSeq(log, 3, Len(log)), LAMBDA e : e[1] \in ProfileWrites)

\* The fallback reached its brightness read, the fifth call of the pass, and the read
\* returned a value.
BrightnessRead(log) ==
    /\ Len(log) >= 5
    /\ log[3][3] /\ log[4][3]
    /\ log[5] = << "get_keyboard_brightness", 0, TRUE >>

\* The five fields in their order, the brightness left out when skip holds.
ProfileOrder(profile, skip) ==
    << << "set_perf_mode", profile.perf_mode >>, << "set_logo_mode", profile.logo_mode >> >>
    \o (IF skip THEN << >>
        ELSE << << "set_keyboard_brightness", profile.keyboard_brightness >> >>)
    \o << << "set_lights_always_on", profile.lights_always_on >>,
          << "set_battery_care", profile.battery_care >> >>

IsPrefix(s, t) == Len(s) <= Len(t) /\ \A i \in 1..Len(s) : s[i] = t[i]
Calls(ws) == [i \in 1..Len(ws) |-> << ws[i][1], ws[i][2] >>]

\* A tick in which the scheduler sees the power source changed.
Transition == last'.op = "update" /\ init_channel = << >> /\ ac_power' # ac_power
Selected == IF ac_power' THEN ac_profile ELSE battery_profile

\* C3 as stated: the pass first writes the selected profile's performance mode; when
\* the full read that follows fails it writes all five fields in order, the brightness
\* only if it differs from the device's value; when the read succeeds it writes no
\* other profile field.
C3_Original ==
    [][ Transition =>
          /\ devlog'[1][1] = "set_perf_mode" /\ devlog'[1][2] = Selected.perf_mode
          /\ (devlog'[1][3] /\ ~devlog'[2][3]) =>
                Calls(FallbackWrites(devlog'))
                    = ProfileOrder(Selected,
                                   dev.keyboard_brightness = Selected.keyboard_brightness)
          /\ (devlog'[1][3] /\ devlog'[2][3]) => FallbackWrites(devlog') = << >> ]_vars

\* C3, amended: the pass first writes the selected profile's performance mode; when the
\* full read that follows fails it writes the five fields in order and stops at the
\* first write that fails, the brightness being skipped only when the device's value
\* was read and equals the profile's; when the read succeeds it writes no other profile
\* field.
C3_FallbackInOrder ==
    [][ Transition =>
          /\ devlog'[1][1] = "set_perf_mode" /\ devlog'[1][2] = Selected.perf_mode
          /\ (devlog'[1][3] /\ ~devlog'[2][3]) =>
                \E order \in
                    { ProfileOrder(Selected,
                          /\ BrightnessRead(devlog')
                          /\ dev.keyboard_brightness = Selected.keyboard_brightness) } :
                    /\ FallbackWrites(devlog') # << >>
                    /\ IsPrefix(Calls(FallbackWrites(devlog')), order)
                    /\ \A i \in 1..Len(FallbackWrites(devlog')) :
                          FallbackWrites(devlog')[i][3]
                              <=> (i < Len(FallbackWrites(devlog'))
                                   \/ Len(FallbackWrites(devlog')) = Len(order))
          /\ (devlog'[1][3] /\ devlog'[2][3]) => FallbackWrites(devlog') = << >> ]_vars

\* The full read failed after a switch to the battery profile and the fallback wrote
\* all five fields.
C3_Witness ==
    /\ last.op = "update"
    /\ Len(devlog) >= 2
    /\ devlog[1] = << "set_perf_mode", Battery, TRUE >>
    /\ ~devlog[2][3]
    /\ Calls(FallbackWrites(devlog)) = ProfileOrder(battery_profile, FALSE)
    /\ dev.battery_care = Enable /\ dev.keyboard_brightness = 50

\* ---- C4 ----
NoWrite(log) == \A i \in DOMAIN log : log[i][1] \in {"get_perf_mode", "diff"}

\* A forced probe requested while the device is in Custom mode.
ProbeUnderCustom == last'.op = "start_probe_perf_modes" /\ dev.perf_mode = Custom

FinishedClean(k) ==
    /\ probes[k].pc = "send"
    /\ probes[k].current_mode # 0
    /\ probes[k].failed = 0
    /\ \A i \in DOMAIN probes[k].writes : probes[k].writes[i][2]
    /\ ~probes[k].disturbed

\* C5: after a probe worker has finished, all its device calls succeeding and no other
\* writer active, every device setting equals its value before the probe started.
C5_DeviceAsFound ==
    \A k \in DOMAIN probes : FinishedClean(k) => dev = probes[k].found

\* ---- C6 ----
\* C6: a worker that read the current mode ends its enumeration with exactly one more
\* write, of that mode, whatever the candidate writes did; when that write has succeeded
\* and nobody else has written since, the device is in that mode when the result is
\* sent; a failed restore is not written again.
C6_RestoreAlwaysWritten ==
    \A k \in DOMAIN probes :
        (probes[k].pc = "send" /\ probes[k].current_mode # 0) =>
            /\ Len(probes[k].writes) = Cardinality(PerfModes)
            /\ probes[k].writes[Len(probes[k].writes)][1] = probes[k].current_mode
            /\ \A i \in 1..(Len(probes[k].writes) - 1) :
                  probes[k].writes[i][1] # probes[k].current_mode
            /\ (probes[k].writes[Len(probes[k].writes)][2] /\ ~probes[k].touched)
                  => dev.perf_mode = probes[k].current_mode

\* No candidate write succeeded, the restoring write was made all the same and
\* succeeded.
C6_Witness ==
    \E k \in DOMAIN probes :
        /\ probes[k].pc = "send"
        /\ probes[k].current_mode = Balanced
        /\ Len(probes[k].writes) = Cardinality(PerfModes)
        /\ \A i \in 1..(Len(probes[k].writes) - 1) : ~probes[k].writes[i][2]
        /\ probes[k].writes[Len(probes[k].writes)] = << Balanced, TRUE >>
        /\ dev.perf_mode = Balanced

\* ---- C7 ----
\* A tick that finds a result on the stored receiver (and starts no new probe).
Received(k) ==
    /\ last'.op = "update"
    /\ probe_receiver = Some(k)
    /\ IsSome(probes[k].channel)
    /\ Len(probes') = Len(probes)

\* C7: an empty result leaves the available modes as they were, a non-empty result
\* replaces them, nothing else changes them, and in both cases the receiver is cleared.
C7_EmptyResultIgnored ==
    [][ /\ \A k \in DOMAIN probes :
              Received(k) =>
                  /\ probe_receiver' = None
                  /\ available_performance_modes' =
                        IF Unwrap(probes[k].channel) = << >>
                        THEN available_performance_modes
                        ELSE Unwrap(probes[k].channel)
        /\ available_performance_modes' # available_performance_modes =>
              \E k \in DOMAIN probes :
                  /\ Received(k)
                  /\ Unwrap(probes[k].channel) # << >>
                  /\ available_performance_modes' = Unwrap(probes[k].channel) ]_vars

\* The scheduler has taken the empty list of a worker that could not read the device.
C7_Witness ==
    /\ last.op = "update"
    /\ Len(probes) = 1
    /\ probes[1].pc = "done" /\ probes[1].modes = << >> /\ probes[1].failed > 0
    /\ probes[1].channel = None
    /\ probe_receiver = None
    /\ available_performance_modes # << >>

\* ---- C8 ----
Milestones == << "PowerStateRead", "InitializationComplete", "SystemSpecsComplete" >>

\* C8: the milestones applied so far followed by those waiting on the channel are the
\* first ones of PowerStateRead, InitializationComplete, SpecsComplete: one channel, that
\* order, each at most once, applied in the order sent.
C8_MilestonesInOrder ==
    IsPrefix(applied \o [i \in 1..Len(init_channel) |-> init_channel[i].type], Milestones)

\* All three have been sent and applied.
C8_Witness ==
    /\ applied = Milestones
    /\ last.op \in {"update", "update minimized"}
    /\ init_worker = "done"
    /\ fully_initialized /\ init_power_read /\ init_specs_complete

InBacklog(m, mm) == \E i \in DOMAIN mm.message_queue : mm.message_queue[i] = m

\* C9: immediately after post(m) the current message is m, whatever the kind, priority
\* or age of the message shown before.
C9_PostPreempts ==
    last.op = "post" =>
        /\ IsSome(get_current_message(message_manager, now))
        /\ Unwrap(get_current_message(message_manager, now)).content = last.arg
        /\ Unwrap(get_current_message(message_manager, now)).timestamp = now

\* A Normal message has just been inputs over a live Critical one, which went to the backlog.
C9_Witness ==
    /\ last.op = "post"
    /\ Unwrap(message_manager.current_message).duration = NormalSecs
    /\ \E i \in DOMAIN message_manager.message_queue :
          /\ message_manager.message_queue[i].duration = CriticalSecs
          /\ ~is_expired(message_manager.message_queue[i], now)

\* C10: for post(m1), post(m2) with m1 inputs less than 3 s before m2, m1 is in the
\* backlog immediately after post(m2), and once m2 has expired a tick makes m1 the
\* current message again.
C10_BacklogThenPromoted ==
    [][ LET cur == message_manager.current_message
            q == message_manager.message_queue
        IN /\ (last'.op = "post" /\ IsSome(cur) /\ now - Unwrap(cur).timestamp < SaveAge)
                => InBacklog(Unwrap(cur), message_manager')
           /\ (last'.op = "tick" /\ IsSome(cur) /\ is_expired(Unwrap(cur), now)
                /\ q # << >>
                /\ q[Len(q)].timestamp <= Unwrap(cur).timestamp
                /\ Unwrap(cur).timestamp - q[Len(q)].timestamp < SaveAge)
                => message_manager'.current_message = Some(q[Len(q)]) ]_vars


\* ---- C11 ----
\* The message in the slot before a post.
Preempted == Unwrap(message_manager.current_message)

\* C11: the message a post preempts is in the backlog afterwards if and only if it had
\* not begun fading (elapsed time at most its own duration) and is not expired.
C11_SavedUnlessFading ==
    [][ (last'.op = "post" /\ IsSome(message_manager.current_message)) =>
            (InBacklog(Preempted, message_manager')
                <=> (~should_fade(Preempted, now) /\ ~is_expired(Preempted, now))) ]_vars

\* ---- C12 ----
\* C12: the backlog never holds more than 10 messages.
C12_BacklogBounded == Len(message_manager.message_queue) <= QueueLimit

\* A post has just displaced a message onto a backlog that was full.
C12_Witness ==
    /\ last.op = "post"
    /\ inputs = MaxBurst
    /\ Len(message_manager.message_queue) = QueueLimit

\* ---- C13 ----
\* C13: when a post displaces a message onto a backlog of 10 live entries, the oldest
\* entry is discarded and the message displaced is kept, as the newest entry.
C13_OldestDiscarded ==
    [][ (/\ last'.op = "post"
         /\ IsSome(message_manager.current_message)
         /\ age_seconds(Preempted, now) < SaveAge
         /\ ~is_expired(Preempted, now)
         /\ Len(retain_live(message_manager.message_queue, now)) = QueueLimit)
            => message_manager'.message_queue
                 = Tail(retain_live(message_manager.message_queue, now))
                       \o << Preempted >> ]_vars

\* ---- C14 ----
\* The entries a tick took off the backlog, the newest first.
Popped ==
    [i \in 1..(Len(message_manager.message_queue) - Len(message_manager'.message_queue))
        |-> message_manager.message_queue[Len(message_manager.message_queue) + 1 - i]]

\* C14: a tick never puts an expired entry in the slot; the entries it takes off the
\* backlog are its newest ones, all of them expired but the one promoted.
C14_ExpiredNeverPromoted ==
    [][ last'.op = "tick" =>
          /\ IsPrefix(message_manager'.message_queue, message_manager.message_queue)
          /\ \A i \in DOMAIN Popped :
                IF is_expired(Popped[i], now)
                THEN message_manager'.current_message # Some(Popped[i])
                ELSE i = Len(Popped) /\ message_manager'.current_message = Some(Popped[i])
          /\ IsSome(message_manager'.current_message)
                => ~is_expired(Unwrap(message_manager'.current_message), now) ]_vars

\* A tick has taken two entries off the backlog: an expired one, discarded, and the
\* live one below it, promoted.
C14_Witness ==
    /\ last.op = "tick"
    /\ last.arg = "2"
    /\ IsSome(message_manager.current_message)
    /\ ~is_expired(Unwrap(message_manager.current_message), now)

\* ---- C15 ----
\* The backlog entries that are not expired.
Live(q) == { i \in DOMAIN q : ~is_expired(q[i], now) }
Newest(S) == CHOOSE i \in S : \A j \in S : j <= i

\* C15: a tick that finds the slot empty or its message expired fills it with the
\* newest backlog entry that is not expired, or leaves it empty when there is none;
\* a tick that finds a message that is not expired changes nothing.
C15_TickPromotesNewestLive ==
    [][ last'.op = "tick" =>
          IF IsSome(message_manager.current_message) /\ ~is_expired(Preempted, now)
          THEN message_manager' = message_manager
          ELSE IF Live(message_manager.message_queue) = {}
               THEN message_manager' = MessageManager_new
               ELSE /\ message_manager'.current_message =
                          Some(message_manager.message_queue[
                                   Newest(Live(message_manager.message_queue))])
                    /\ message_manager'.message_queue =
                          SubSeq(message_manager.message_queue, 1,
                                 Newest(Live(message_manager.message_queue)) - 1) ]_vars

\* A tick has promoted a backlog entry while an older one stays behind it.
C15_Witness ==
    /\ last.op = "tick"
    /\ last.arg = "1"
    /\ IsSome(message_manager.current_message)
    /\ message_manager.message_queue # << >>
    /\ message_manager.message_queue[1].timestamp
           <= Unwrap(message_manager.current_message).timestamp

\* ---- C16 ----
\* C16 as stated: a Critical message stays the displayed message for at least 8 s after
\* it is posted.
C16_Original ==
    [][ (/\ IsSome(message_manager.current_message)
         /\ Preempted.message_type = "Error"
         /\ now' - Preempted.timestamp <= CriticalSecs)
            => get_current_message(message_manager', now') = Some(Preempted) ]_vars

\* C16, amended: a Critical message is not expired until more than 8 s plus the 2.1 s
\* fade tail have passed since its creation, and unless a later post preempts it, it
\* stays the displayed message for that long: no tick and no passing of time removes it.
C16_CriticalStaysUnlessPreempted ==
    [][ (/\ IsSome(message_manager.current_message)
         /\ Preempted.message_type = "Error"
         /\ now' - Preempted.timestamp <= CriticalSecs + FadeTail
         /\ last'.op # "post")
            => /\ ~is_expired(Preempted, now')
               /\ get_current_message(message_manager', now') = Some(Preempted) ]_vars

\* A Critical message is still displayed after a tick made 8 s or more after its post.
C16_Witness ==
    /\ last.op = "tick"
    /\ IsSome(get_current_message(message_manager, now))
    /\ Unwrap(message_manager.current_message).message_type = "Error"
    /\ now - Unwrap(message_manager.current_message).timestamp >= CriticalSecs

\* ---- C17 ----
\* The four reads read_initial_device_state makes through its DeviceStateReader, with
\* the operation names it gives them.
ReaderOps ==
    << "get_keyboard_brightness", "get_perf_mode", "get_lights_always_on",
       "get_battery_care" >>
ReaderNames ==
    << "keyboard brightness", "performance mode", "lights always on", "battery care" >>

ReadMade(log, op) == \E i \in 1..Len(log) : log[i][1] = op
FirstAt(log, op) ==
    CHOOSE i \in 1..Len(log) : log[i][1] = op /\ \A j \in 1..(i - 1) : log[j][1] # op
ReadOk(log, op) == log[FirstAt(log, op)][3]

\* One diagnostic per failed read of the reader, in the order of the reads.
RECURSIVE DiagnosticsFrom(_, _)
DiagnosticsFrom(log, k) ==
    IF k > Len(ReaderOps) THEN << >>
    ELSE (IF ReadOk(log, ReaderOps[k]) THEN << >>
          ELSE << "Failed to read " \o ReaderNames[k] \o ": " \o ErrText >>)
         \o DiagnosticsFrom(log, k + 1)

\* The field a read of the reader fills, as the reader's caller leaves it.
ReaderField(k) ==
    CASE k = 1 -> status.keyboard_brightness
      [] k = 2 -> status.performance_mode
      [] k = 3 -> status.lights_always_on
      [] k = 4 -> status.battery_care
ReaderDefault(k) ==
    CASE k = 1 -> DeviceStatus_default.keyboard_brightness
      [] k = 2 -> DeviceStatus_default.performance_mode
      [] k = 3 -> DeviceStatus_default.lights_always_on
      [] k = 4 -> DeviceStatus_default.battery_care
ReaderValue(k) ==
    CASE k = 1 -> dev.keyboard_brightness
      [] k = 2 -> perf_mode_to_string(dev.perf_mode)
      [] k = 3 -> (dev.lights_always_on = Enable)
      [] k = 4 -> (dev.battery_care = Enable)

\* C17: on a device that was found, construction makes all four reads of the reader
\* whichever of them fail; a read that fails yields nothing, so its field keeps the
\* default, a read that succeeds yields the value read; and finish() returns exactly
\* one diagnostic per failed read, in the order the failing reads were made.
C17_ReaderCollectsFailures ==
    (last.op = "new" /\ IsSome(device)) =>
        /\ \A k \in DOMAIN ReaderOps :
              /\ ReadMade(devlog, ReaderOps[k])
              /\ ReaderField(k) = IF ReadOk(devlog, ReaderOps[k]) THEN ReaderValue(k)
                                  ELSE ReaderDefault(k)
        /\ reader_errors = DiagnosticsFrom(devlog, 1)

\* Construction in which two reads of the reader failed and a later one succeeded.
C17_Witness ==
    /\ last.op = "new"
    /\ Len(reader_errors) = 2
    /\ ~ReadOk(devlog, "get_keyboard_brightness")
    /\ ReadOk(devlog, "get_battery_care")

\* ---- C18 ----
\* The set requests of the user, the device command each sends and the text that
\* introduces its failure.
SetRequests ==
    { "set_performance_mode", "set_fan_mode", "set_fan_rpm_only", "set_logo_mode",
      "set_brightness", "toggle_lights_always_on", "toggle_battery_care" }
SetCommands(op) ==
    CASE op = "set_performance_mode" -> { "set_perf_mode" }
      [] op = "set_fan_mode" -> { "set_fan_mode", "set_fan_rpm" }
      [] op = "set_fan_rpm_only" -> { "set_fan_rpm" }
      [] op = "set_logo_mode" -> { "set_logo_mode" }
      [] op = "set_brightness" -> { "set_keyboard_brightness" }
      [] op = "toggle_lights_always_on" -> { "set_lights_always_on" }
      [] op = "toggle_battery_care" -> { "set_battery_care" }
FailureText(op) ==
    CASE op = "set_performance_mode" -> "Failed to set performance mode"
      [] op = "set_fan_mode" -> "Failed to set fan"
      [] op = "set_fan_rpm_only" -> "Failed to set fan RPM"
      [] op = "set_logo_mode" -> "Failed to set logo mode"
      [] op = "set_brightness" -> "Failed to set brightness"
      [] op = "toggle_lights_always_on" -> "Failed to set lights always on"
      [] op = "toggle_battery_care" -> "Failed to set battery care"

\* The command of request op met a failure at the device.
SetFailed(op, log) ==
    \E i \in 1..Len(log) : log[i][1] \in SetCommands(op) /\ ~log[i][3]

\* C18: a set request of the user whose command fails at the device leaves a Critical
\* notification displayed: kind Error, 8 s, carrying the error of the device.
C18_SetFailureIsCritical ==
    [][ (last'.op \in SetRequests /\ SetFailed(last'.op, devlog')) =>
            /\ IsSome(message_manager'.current_message)
            /\ Unwrap(message_manager'.current_message).content
                   = FailureText(last'.op) \o ": " \o ErrText
            /\ Unwrap(message_manager'.current_message).message_type = "Error"
            /\ Unwrap(message_manager'.current_message).duration = CriticalSecs ]_vars

\* ---- C19 ----
RestoreModeText == "Failed to restore manual fan mode after performance mode change"
RestoreRpmText == "Failed to restore fan RPM after performance mode change"

\* How many messages of a manager, displayed or in the backlog, carry a text.
Carrying(mm, text) ==
    Cardinality({ i \in DOMAIN mm.message_queue : mm.message_queue[i].content = text })
      + (IF IsSome(mm.current_message) /\ Unwrap(mm.current_message).content = text
         THEN 1 ELSE 0)

\* The step posted n messages carrying the text.
PostedNow(text, n) ==
    Carrying(message_manager', text) = Carrying(message_manager, text) + n

\* A mode request on a fan in Manual mode whose reads of the fan state and whose mode
\* switch succeeded: the restore sequence runs.
RestoreRuns(log) ==
    /\ dev.fan_mode = FanManual
    /\ Len(log) >= RestoreEnd(log) - 2
    /\ \A i \in 2..(RestoreEnd(log) - 2) : log[i][3]

\* C19: in the restore sequence after a successful mode switch made with the fan in
\* Manual mode, a failure to reassert Manual mode posts "Failed to restore manual fan
\* mode after performance mode change" and the RPM is not written; a failure of the RPM
\* write after Manual mode was reasserted posts "Failed to restore fan RPM after
\* performance mode change"; each failure posts its own text only, and a sequence
\* without failure posts neither.
C19_RestoreFailuresDistinct ==
    [][ (last'.op = "set_performance_mode" /\ RestoreRuns(devlog')) =>
          /\ devlog'[RestoreEnd(devlog') - 2][1] = "set_perf_mode"
          /\ devlog'[RestoreEnd(devlog') - 1][1] = "set_fan_mode"
          /\ devlog'[RestoreEnd(devlog') - 1][2] = FanManual
          /\ IF ~devlog'[RestoreEnd(devlog') - 1][3]
             THEN /\ PostedNow(RestoreModeText, 1)
                  /\ PostedNow(RestoreRpmText, 0)
                  /\ \A i \in DOMAIN devlog' : devlog'[i][1] # "set_fan_rpm"
             ELSE /\ devlog'[RestoreEnd(devlog')][1] = "set_fan_rpm"
                  /\ PostedNow(RestoreModeText, 0)
                  /\ PostedNow(RestoreRpmText,
                               IF devlog'[RestoreEnd(devlog')][3] THEN 0 ELSE 1) ]_vars

\* A request has reasserted Manual mode and failed to write the RPM, and the failure
\* is among the messages.
C19_Witness ==
    /\ last.op = "set_performance_mode"
    /\ Len(devlog) >= 5
    /\ \E i \in 4..5 : /\ devlog[i - 1] = << "set_fan_mode", FanManual, TRUE >>
                       /\ devlog[i][1] = "set_fan_rpm"
                       /\ ~devlog[i][3]
    /\ Carrying(message_manager, RestoreRpmText) = 1

\* ---- C20 ----
\* The snapshot CompleteDeviceState::read_from_device takes of a device.
LiveState(d) ==
    [perf_mode |-> d.perf_mode, fan_mode |-> d.fan_mode,
     fan_rpm |-> IF d.fan_mode = FanManual THEN Some(d.fan_rpm) ELSE None,
     logo_mode |-> d.logo_mode, keyboard_brightness |-> d.keyboard_brightness,
     lights_always_on |-> d.lights_always_on, battery_care |-> d.battery_care]

\* The pass saw the power source change and wrote the profile's performance mode.
SwitchHandled ==
    /\ last'.op = "update"
    /\ ac_power' # ac_power
    /\ ReadMade(devlog', "set_perf_mode")
    /\ ReadOk(devlog', "set_perf_mode")
    /\ \A i \in DOMAIN devlog' : devlog'[i][1] # "diff"

\* C20: after a pass has handled a power transition, by the full-state read or by the
\* fallback application of the profile, the stored baseline is the live state of the
\* device.
C20_BaselineIsLive ==
    [][ SwitchHandled => device_state' = Some(LiveState(dev')) ]_vars

\* ---- C21 ----
\* C21: while the brightness slider is held, no pass of the scheduler that runs the
\* cadence checks changes the status keyboard brightness or the slider step.
C21_SliderNotOverwritten ==
    [][ (last'.op = "update" /\ fully_initialized /\ brightness_slider_active) =>
            /\ status'.keyboard_brightness = status.keyboard_brightness
            /\ temp_brightness_step' = temp_brightness_step ]_vars

\* ---- C22 ----
\* The pass runs the drift enforcement and nothing else that posts or that stores an
\* RPM: the application is initialized, no message of the start-up worker is waiting,
\* the refresh and the enforcement are due, and the readout of the pass found the fan
\* in Manual.
EnforceRuns ==
    /\ last'.op = "update"
    /\ fully_initialized
    /\ init_channel = << >>
    /\ now - last_refresh_time >= AUTO_REFRESH_INTERVAL
    /\ now - last_fan_enforce_time >= FAN_ENFORCE_INTERVAL
    /\ status'.fan_speed = "Manual"
    /\ ~status.lights_always_on
    /\ power = ac_power

\* The enforcement's calls come last but one in the log of such a pass, before the
\* brightness refresh: its read when that failed, else its write.
EnforceCall(log) == log[Len(log) - 1]
EnforceFailed(log) ==
    /\ Len(log) >= 2
    /\ EnforceCall(log)[1] \in {"get_fan_rpm", "set_fan_rpm"}
    /\ ~EnforceCall(log)[3]

\* C22: a drift-enforcement pass whose read of the configured RPM or whose write-back
\* fails posts no notification and leaves the status set-RPM and the remembered manual
\* RPM as they were.
C22_EnforceFailureSilent ==
    [][ (EnforceRuns /\ EnforceFailed(devlog')) =>
            /\ message_manager' = MessageManager_update(message_manager, now)
            /\ status'.fan_rpm = status.fan_rpm
            /\ manual_fan_rpm' = manual_fan_rpm ]_vars

\* The write-back of an RPM set by another tool has failed, and the application still
\* remembers its own RPM.
C22_Witness ==
    /\ last.op = "update"
    /\ Len(devlog) >= 2
    /\ EnforceCall(devlog) = << "set_fan_rpm", 3500, FALSE >>
    /\ manual_fan_rpm = 3000
    /\ status.fan_rpm = Some(3000)

\* ---- C23 ----
\* C23: a pass of the scheduler starts a probe only for a descriptor without a mode
\* list, a forced re-probe starts one whatever the descriptor says, and no worker that
\* finds the device in Custom mode writes to it, whether the pre-check of the request
\* failed or the mode became Custom after it.
C23_NoProbeWriteUnderCustom ==
    [][ /\ (last'.op = "update" /\ Len(probes') > Len(probes))
              => ~IsSome(Unwrap(device).perf_modes)
        /\ (last'.op = "start_probe_perf_modes" /\ dev.perf_mode # Custom)
              => Len(probes') > Len(probes)
        /\ \A k \in DOMAIN probes' :
              probes'[k].current_mode = Custom => probes'[k].writes = << >> ]_vars

\* ---- C24 ----
\* The worker spawned last.
NewestWorker == Len(probes)

\* C24: a result waits only on the receiver of the worker spawned last, so the result
\* of a worker that a later request has superseded is never delivered; and a pass that
\* changes the available modes sets them to the list that worker sent.
C24_OnlyNewestResultApplied ==
    [][ /\ \A k \in DOMAIN probes' :
              IsSome(probes'[k].channel) => (k = Len(probes') /\ probe_receiver' = Some(k))
        /\ (last'.op = "update"
              /\ available_performance_modes' # available_performance_modes)
              => /\ probe_receiver = Some(NewestWorker)
                 /\ probes[NewestWorker].channel = Some(available_performance_modes') ]_vars

\* Two workers have run to their end and the pass has applied the list of the second,
\* which is not the list the first one found.
C24_Witness ==
    /\ last.op = "update"
    /\ Len(probes) = 2
    /\ probes[1].pc = "done"
    /\ probes[2].pc = "done"
    /\ probes[1].modes # probes[2].modes
    /\ available_performance_modes = probes[2].modes
    /\ probe_receiver = None

\* ---- C25 ----
\* A pass with nothing to drain whose only notification is the one of the profile
\* switch: the power source has changed and the refresh is due.
SwitchPosts ==
    /\ last'.op = "update"
    /\ fully_initialized
    /\ init_channel = << >>
    /\ probe_receiver = None
    /\ power # ac_power
    /\ now - last_refresh_time >= AUTO_REFRESH_INTERVAL
    /\ ~status.lights_always_on
SwitchMessage ==
    status_message("⚡ Auto-switched to " \o (IF power THEN "AC" ELSE "Battery")
                       \o " profile", now)

\* A pass that drains the last message of the start-up worker and runs no check that
\* posts.
DrainPosts ==
    /\ last'.op = "update"
    /\ fully_initialized /\ init_power_read
    /\ Len(init_channel) = 1
    /\ init_channel[1].type = "SystemSpecsComplete"
    /\ probe_receiver = None
    /\ power = ac_power
    /\ ~status.lights_always_on
DrainMessage == status_message("Initialization complete", now)

\* C25 as stated: the tick of the messages is the last step of a pass, after the
\* notifications the checks of the pass have posted.
C25_Original ==
    [][ SwitchPosts =>
            message_manager'
                = MessageManager_update(add_message(message_manager, SwitchMessage, now),
                                        now) ]_vars

\* C25, amended: a pass drains the start-up and probe messages, then ticks the
\* messages, then runs the minimized poll or the cadence checks: what the drain posts
\* is ticked by the same pass, what a check posts is posted after the tick of the pass.
C25_TickBeforeChecks ==
    [][ /\ SwitchPosts =>
              message_manager'
                  = add_message(MessageManager_update(message_manager, now),
                                SwitchMessage, now)
        /\ DrainPosts =>
              message_manager'
                  = MessageManager_update(add_message(message_manager, DrainMessage, now),
                                          now) ]_vars

\* The pass found an error of 6 s on top of the backlog under an expired message; the
\* tick promoted the error and the notification of the switch then replaced it for good.
C25_Witness ==
    /\ last.op = "update"
    /\ message_manager.message_queue = << >>
    /\ IsSome(message_manager.current_message)
    /\ Unwrap(message_manager.current_message).content = "⚡ Auto-switched to Battery profile"
    /\ now - Unwrap(message_manager.current_message).timestamp = 0
    /\ last.arg = "Error"
    /\ now = 60

\* ---- C26 ----
\* The calls of the minimized poll: the mode read and, when the mode has changed on a
\* fan in Manual mode, the read of its RPM.
PollOnly(log) ==
    /\ Len(log) <= 2
    /\ \A i \in DOMAIN log : log[i][1] = (IF i = 1 THEN "get_perf_mode" ELSE "get_fan_rpm")

\* The start-up worker's InitializationComplete is waiting to be applied.
CompletePending ==
    \E i \in DOMAIN init_channel : init_channel[i].type = "InitializationComplete"

\* C26 as stated: a pass made while the window is minimized accesses the device for
\* the poll of the mode only.
C26_Original ==
    [][ last'.op = "update minimized" => PollOnly(devlog') ]_vars

\* C26, amended: a minimized pass that has no InitializationComplete to apply accesses
\* the device for the poll of the mode only, and only when 2.5 s have passed since the
\* last poll; it writes nothing, makes no power check and leaves the baseline alone.
C26_MinimizedPollsOnly ==
    [][ (last'.op = "update minimized" /\ ~CompletePending) =>
            /\ PollOnly(devlog')
            /\ devlog' # << >> =>
                  /\ fully_initialized
                  /\ now - last_perf_poll_time >= PERF_POLL_INTERVAL
                  /\ last_perf_poll_time' = now
            /\ dev' = dev
            /\ device_state' = device_state
            /\ last_refresh_time' = last_refresh_time ]_vars

\* A minimized pass has polled the mode and caught the change another tool made; the
\* baseline is as it was.
C26_Witness ==
    /\ last.op = "update minimized"
    /\ devlog = << << "get_perf_mode", 0, TRUE >> >>
    /\ status.performance_mode = "Battery"
    /\ IsSome(device_state)
    /\ Unwrap(device_state).perf_mode # Battery

\* ---- C27 ----
Pass == last'.op \in {"update", "update minimized"}

CompleteApplied(a) == Cardinality({ i \in DOMAIN a : a[i] = "InitializationComplete" })

\* C27 as stated, in its part on the baseline: a pass that stores a baseline where none
\* was stored is the pass that applies InitializationComplete.
C27_Original ==
    [][ (Pass /\ device_state = None /\ device_state' # None) => CompletePending ]_vars

\* C27, amended: a pass made before InitializationComplete is applied makes no device
\* call, stores no baseline and starts no probe; a pass starts a probe only when it
\* applies InitializationComplete, which happens at most once; and when the first read
\* of that pass fails, it starts no probe.
C27_FirstReadAtComplete ==
    [][ Pass =>
          /\ (~fully_initialized /\ ~CompletePending) =>
                /\ devlog' = << >>
                /\ device_state' = device_state
                /\ Len(probes') = Len(probes)
                /\ probe_receiver' = probe_receiver
          /\ Len(probes') # Len(probes) => (~fully_initialized /\ CompletePending)
          /\ (CompletePending /\ devlog' # << >> /\ ~devlog'[1][3]) =>
                Len(probes') = Len(probes)
          /\ CompleteApplied(applied') <= 1
          /\ fully_initialized => fully_initialized' ]_vars

\* The pass that applied InitializationComplete has read the device, stored the first
\* baseline and started the probe of the modes.
C27_Witness ==
    /\ last.op \in {"update", "update minimized"}
    /\ applied # << >>
    /\ applied[Len(applied)] = "InitializationComplete"
    /\ IsSome(device_state)
    /\ Len(probes) = 1
    /\ probe_receiver = Some(1)
    /\ devlog # << >>

\* ---- C28 ----
\* The pass compared a snapshot with the baseline.
Diffed(log) == \E i \in DOMAIN log : log[i][1] = "diff"

\* The pass read the full state: the logo mode is read by the full reads only.
FullRead(log) == \E i \in DOMAIN log : log[i][1] = "get_logo_mode"

\* C28 as stated, in its last part: while the flag is clear a pass of the cadence makes no
\* full-state read and leaves the baseline alone.
C28_Original ==
    [][ (Pass /\ fully_initialized /\ ~status.lights_always_on) =>
            (~FullRead(devlog') /\ device_state' = device_state) ]_vars

\* C28, amended: a snapshot is compared with the baseline only on a refresh pass with
\* the lights-always-on flag set and 3 s after the last state check, which the pass
\* records; while the flag is clear, a pass that finds the power source unchanged
\* makes no full-state read and leaves the baseline alone.
C28_DiffOnlyWhenFlagged ==
    [][ Pass =>
          /\ Diffed(devlog') =>
                /\ last'.op = "update"
                /\ fully_initialized'
                /\ status'.lights_always_on
                /\ fully_initialized => status.lights_always_on
                /\ now - last_refresh_time >= AUTO_REFRESH_INTERVAL
                /\ last_refresh_time' = now
                /\ now - last_state_check_time >= STATE_CHECK_INTERVAL
                /\ last_state_check_time' = now
          /\ (fully_initialized /\ ~status.lights_always_on /\ power = ac_power) =>
                (~FullRead(devlog') /\ device_state' = device_state) ]_vars

\* A refresh pass with the flag set has compared a snapshot with the baseline, 6 s or
\* more after the start.
C28_Witness ==
    /\ last.op = "update"
    /\ Diffed(devlog)
    /\ status.lights_always_on
    /\ last_state_check_time = now
    /\ now >= 2 * STATE_CHECK_INTERVAL

\* ---- C29 ----
\* The status fields show the snapshot c.
SnapshotShown(st, step, c) ==
    /\ st.performance_mode = perf_mode_to_string(c.perf_mode)
    /\ st.fan_speed = (IF c.fan_mode = FanManual THEN "Manual" ELSE "Auto")
    /\ st.fan_rpm = c.fan_rpm
    /\ st.logo_mode = logo_mode_to_string(c.logo_mode)
    /\ st.keyboard_brightness = c.keyboard_brightness
    /\ step = raw_brightness_to_step_index(c.keyboard_brightness)
    /\ st.lights_always_on = (c.lights_always_on = Enable)
    /\ st.battery_care = (c.battery_care = Enable)

\* A refresh pass after start-up, with nothing to drain.
QuietPass ==
    /\ last'.op = "update"
    /\ fully_initialized
    /\ init_channel = << >>
    /\ probe_receiver = None

UpdatedText == status_message("Device state updated externally", now)

\* C29: a diff pass whose snapshot differs from the baseline in any field, the
\* performance mode being the same, replaces the baseline with the snapshot, shows the
\* snapshot in every status field and posts "Device state updated externally" only if
\* status messages are on; a diff pass whose snapshot equals the baseline leaves the
\* baseline and posts nothing.
C29_FieldWiseDiff ==
    [][ QuietPass =>
          \A i \in DOMAIN devlog' :
             (devlog'[i][1] = "diff" /\ devlog'[i][2][1].perf_mode = devlog'[i][2][2].perf_mode) =>
                /\ devlog'[i][2][1] = Unwrap(device_state)
                /\ IF devlog'[i][2][1] = devlog'[i][2][2]
                   THEN /\ device_state' = device_state
                        /\ message_manager' = MessageManager_update(message_manager, now)
                        /\ status'.logo_mode = status.logo_mode
                   ELSE /\ device_state' = Some(devlog'[i][2][2])
                        /\ SnapshotShown(status', temp_brightness_step', devlog'[i][2][2])
                        /\ message_manager' =
                              IF status_messages
                              THEN add_message(MessageManager_update(message_manager, now),
                                               UpdatedText, now)
                              ELSE MessageManager_update(message_manager, now) ]_vars

\* A diff pass has found the logo mode alone changed and, status messages being on,
\* posted the notification.
C29_Witness ==
    /\ last.op = "update"
    /\ status_messages
    /\ \E i \in Diffs :
          /\ devlog[i][2][1] # devlog[i][2][2]
          /\ [devlog[i][2][1] EXCEPT !.logo_mode = LogoStatic] = devlog[i][2][2]
    /\ ShownText = "Device state updated externally"
    /\ status.logo_mode = logo_mode_to_string(LogoStatic)

\* ---- C30 ----
\* C30: a refresh pass that finds no baseline stored and reads the full state stores the
\* snapshot as the baseline, compares nothing, posts nothing and leaves the status
\* fields the refresh does not read as they were.
C30_FirstSnapshotSilent ==
    [][ (QuietPass /\ device_state = None /\ device_state' # None) =>
            /\ Unwrap(device_state').logo_mode = dev.logo_mode
            /\ Unwrap(device_state').perf_mode = dev.perf_mode
            /\ ~Diffed(devlog')
            /\ message_manager' = MessageManager_update(message_manager, now)
            /\ status'.logo_mode = status.logo_mode
            /\ status'.performance_mode = status.performance_mode ]_vars

\* The first snapshot has been stored with a logo mode another tool had set, and the
\* status still shows the old one: no change was reported.
C30_Witness ==
    /\ last.op = "update"
    /\ IsSome(device_state)
    /\ Unwrap(device_state).logo_mode = LogoStatic
    /\ status.logo_mode # logo_mode_to_string(LogoStatic)
    /\ ~Diffed(devlog)
    /\ FullRead(devlog)

\* ---- C31 ----
\* The pass wrote the fan RPM back: the enforcement is the only writer of a pass that
\* makes no switch of profile.
WroteBack(log) == \E i \in DOMAIN log : log[i][1] = "set_fan_rpm"

\* C31: a pass that writes the fan RPM back finds the status fan-mode label Manual, and
\* when the pass before it wrote the RPM back too, successfully or not, the two are at
\* least 1 s apart.
C31_EnforceSpaced ==
    [][ (last'.op = "update" /\ WroteBack(devlog')) =>
            /\ status'.fan_speed = "Manual"
            /\ now - last_refresh_time >= AUTO_REFRESH_INTERVAL
            /\ (last.op \in {"update", "advance"} /\ WroteBack(devlog)) =>
                  now - last_refresh_time >= FAN_ENFORCE_INTERVAL ]_vars

\* ---- C32 ----
\* C32: a pass whose enforcement writes the RPM back leaves the device with the
\* configured RPM another tool last set: the one found at the start of the pass, or
\* the one set during the pass.
C32_ExternalRpmRespected ==
    [][ (last'.op = "update" /\ WroteBack(devlog')) =>
            IF \E i \in DOMAIN devlog' : devlog'[i][1] = "external"
            THEN \A i \in DOMAIN devlog' : devlog'[i][1] = "external" => dev'.fan_rpm = devlog'[i][2]
            ELSE dev'.fan_rpm = dev.fan_rpm ]_vars

\* ---- C33 ----
\* The candidate writes of a worker: its writes but the restoring one.
CandidateWrites(p) ==
    IF p.pc \in {"send", "done"} /\ p.writes # << >>
    THEN SubSeq(p.writes, 1, Len(p.writes) - 1) ELSE p.writes

\* The modes the loop has been through, in the order of PerfMode::iter().
Enumerated(p) == [m \in 1..(p.i - 1) |-> m]

SetOk(p, m) == \E j \in DOMAIN CandidateWrites(p) : CandidateWrites(p)[j] = << m, TRUE >>

\* C33: at every point of a worker that has read the current mode, its list holds, in
\* the order of the enumeration, the current mode and every other mode enumerated so
\* far whose write succeeded, and it has written every other enumerated mode once,
\* the current mode never.
C33_ResultIsCurrentPlusSettable ==
    \A k \in DOMAIN probes :
        probes[k].current_mode # 0 =>
           /\ probes[k].modes =
                 SelectSeq(Enumerated(probes[k]),
                           LAMBDA m : m = probes[k].current_mode \/ SetOk(probes[k], m))
           /\ [j \in DOMAIN CandidateWrites(probes[k]) |-> CandidateWrites(probes[k])[j][1]] =
                 SelectSeq(Enumerated(probes[k]), LAMBDA m : m # probes[k].current_mode)

\* A worker that found Balanced has finished with Balanced, Battery and Custom: its
\* write of Performance failed.
C33_Witness ==
    \E k \in DOMAIN probes :
        /\ probes[k].pc = "done"
        /\ probes[k].current_mode = Balanced
        /\ probes[k].modes = << Balanced, Battery, Custom >>
        /\ CandidateWrites(probes[k])[1] = << Performance, FALSE >>

\* ---- C34 ----
CompleteText == "Initialization complete"

SpecsApplied(a) == \E i \in DOMAIN a : a[i] = "SystemSpecsComplete"

\* C34: the pass that applies SpecsComplete finds PowerStateRead and
\* InitializationComplete applied before it, the worker sending the three in that
\* order only, and posts "Initialization complete" once; no other pass posts it, and
\* the notification center never holds it twice.
C34_CompleteAnnouncedOnce ==
    [][ Pass =>
          /\ (SpecsApplied(applied') /\ ~SpecsApplied(applied)) =>
                (applied' = Milestones /\ PostedNow(CompleteText, 1))
          /\ ~(SpecsApplied(applied') /\ ~SpecsApplied(applied)) =>
                Carrying(message_manager', CompleteText) <= Carrying(message_manager, CompleteText)
          /\ Carrying(message_manager', CompleteText) <= 1 ]_vars

\* The three milestones have been applied in order and the notification is the
\* current one, "Initializing..." saved behind it.
C34_Witness ==
    /\ applied = Milestones
    /\ last.op \in {"update", "update minimized"}
    /\ ShownText = CompleteText
    /\ Carrying(message_manager, CompleteText) = 1
    /\ Carrying(message_manager, "Initializing...") = 1

\* ---- C35 ----
\* C35: once every probe worker has finished, none of its calls having failed, the
\* device is in the performance mode the user's request has set, the request having
\* succeeded before, during or after the probe: the status label, which only that
\* request changes here, names the device's mode.
C35_UserModeSurvivesProbe ==
    (/\ probes # << >>
     /\ \A k \in DOMAIN probes : probes[k].pc = "done" /\ probes[k].failed = 0
     /\ status.performance_mode = "Performance")
        => dev.perf_mode = Performance

\* ---- C36 ----
\* The fields of the device a set request writes.
FieldsWritten(op) ==
    CASE op = "set_performance_mode" -> { "perf_mode" }
      [] op = "set_fan_mode" -> { "fan_mode", "fan_rpm" }
      [] op = "set_fan_rpm_only" -> { "fan_rpm" }
      [] op = "set_logo_mode" -> { "logo_mode" }
      [] op = "set_brightness" -> { "keyboard_brightness" }
      [] op = "toggle_lights_always_on" -> { "lights_always_on" }
      [] op = "toggle_battery_care" -> { "battery_care" }

\* The request reached the device and every call it made succeeded.
SetDone(op, log) ==
    /\ \E i \in DOMAIN log : log[i][1] \in SetCommands(op)
    /\ \A i \in DOMAIN log : log[i][3]

\* C36: after a set request all of whose device calls succeeded, a baseline being
\* stored, the baseline agrees with the device on every field the request writes.
C36_OwnChangeInBaseline ==
    [][ (last'.op \in SetRequests /\ SetDone(last'.op, devlog') /\ IsSome(device_state)) =>
            \A f \in FieldsWritten(last'.op) :
                Unwrap(device_state')[f] = LiveState(dev')[f] ]_vars

\* ---- C37 ----
\* The performance label shows another mode than the device is in.
Stale == status.performance_mode # perf_mode_to_string(dev.perf_mode)

\* Start-up has been applied and the horizon leaves time for one more diff pass.
Settled == fully_initialized /\ now + DiffStep <= MaxNow

PowerReadings(ch) ==
    { ch[i].ac_power : i \in { j \in DOMAIN ch : ch[j].type = "PowerStateRead" } }

\* The power flag as the messages waiting on the channel leave it.
StoredAfterDrain ==
    IF PowerReadings(init_channel) = {} THEN ac_power
    ELSE CHOOSE reading \in PowerReadings(init_channel) : TRUE

\* ProfileAutoSwitcher ran: nothing else in a pass writes the performance mode.
SwitcherRan(log) == \E i \in DOMAIN log : log[i][1] = "set_perf_mode"

\* C38: the PowerStateRead message only records the power source. A pass invokes the
\* profile switcher only when the live power source differs from the flag as the
\* start-up messages leave it, never because the reading differs from the flag's
\* default; the flag is the reading until a switch makes it the live power source, and
\* no pass completes start-up without the reading applied.
C38_InitialReadingOnlyRecorded ==
    [][ Pass =>
          /\ SwitcherRan(devlog') => power # StoredAfterDrain
          /\ ac_power' = (IF SwitcherRan(devlog') THEN power ELSE StoredAfterDrain)
          /\ fully_initialized' => init_power_read' ]_vars

\* Started on battery, the power source never changed: the cadence has run with the
\* flag on battery and without a switch.
C38_Witness ==
    /\ last.op = "update"
    /\ fully_initialized
    /\ inputs = 0
    /\ ~power /\ ~ac_power
    /\ now > 0 /\ last_refresh_time = now
    /\ ~SwitcherRan(devlog)

\* ---- C39 ----
\* The diff tier is due in a pass that has no start-up message, probe result or change
\* of the power source to handle, and a baseline is stored.
DiffDue ==
    /\ QuietPass
    /\ power = ac_power
    /\ IsSome(device) /\ IsSome(device_state)
    /\ now - last_refresh_time >= AUTO_REFRESH_INTERVAL
    /\ status.lights_always_on
    /\ now - last_state_check_time >= STATE_CHECK_INTERVAL

FailedAt(log) == { i \in DOMAIN log : ~log[i][3] }
OpsAfter(log, i) == [ j \in 1..(Len(log) - i) |-> log[i + j][1] ]

\* What read_essential_device_state reads.
EssentialReads ==
    IF dev.fan_mode = FanManual THEN << "get_perf_mode", "get_fan_rpm", "get_logo_mode" >>
    ELSE << "get_perf_mode", "get_logo_mode" >>

\* C39: when the full-state read of a due diff tier fails, on whichever field, the
\* baseline stays as it was, nothing is posted, the device calls after the failed one
\* are those of the fallback alone, which brings the performance-mode, fan and logo
\* labels to the device's values, and the diff timestamp is advanced all the same.
C39_FailedDiffFallsBack ==
    [][ (DiffDue /\ ~Diffed(devlog')) =>
          /\ FailedAt(devlog') # {}
          /\ device_state' = device_state
          /\ message_manager' = MessageManager_update(message_manager, now)
          /\ \A i \in FailedAt(devlog') : OpsAfter(devlog', i) = EssentialReads
          /\ status'.performance_mode = perf_mode_to_string(dev.perf_mode)
          /\ status'.logo_mode = logo_mode_to_string(dev.logo_mode)
          /\ status'.fan_speed = (IF dev.fan_mode = FanManual THEN "Manual" ELSE "Auto")
          /\ last_state_check_time' = now ]_vars

\* The fallback, after a failed read of the logo mode, has brought the labels to what
\* another tool had set while the baseline still holds the old values.
C39_Witness ==
    /\ last.op = "update"
    /\ \E i \in FailedAt(devlog) : devlog[i][1] = "get_logo_mode"
    /\ ~Diffed(devlog)
    /\ last_state_check_time = now
    /\ status.performance_mode = "Battery"
    /\ IsSome(device_state) /\ Unwrap(device_state).perf_mode = Balanced

\* ---- C40 ----
\* The writes a handler made, failed ones included.
WritesIn(log) ==
    { i \in DOMAIN log : log[i][1] \in UNION { SetCommands(op) : op \in SetRequests } }

\* The switcher ran and could not write the profile's performance mode.
SwitchWriteFailed(log) == \E i \in DOMAIN log : log[i][1] = "set_perf_mode" /\ ~log[i][3]

SwitchFailedText ==
    "Failed to switch to " \o (IF power THEN "AC" ELSE "Battery") \o " profile: " \o ErrText

\* C40: a pass that finds the live power source equal to the stored flag does not run
\* the switcher; one that finds it changed stores the new flag before switching, so
\* that a switch whose performance-mode write fails posts one Critical notification,
\* makes no other write, leaves the performance label and the baseline as they were,
\* and leaves nothing for a later pass to retry.
C40_FailedSwitchNotRetried ==
    [][ QuietPass =>
          /\ power = ac_power => ~SwitcherRan(devlog')
          /\ SwitchWriteFailed(devlog') =>
                /\ power # ac_power
                /\ ac_power' = power
                /\ Cardinality(WritesIn(devlog')) = 1
                /\ message_manager' =
                       add_message(MessageManager_update(message_manager, now),
                                   error_message(SwitchFailedText, now), now)
                /\ Unwrap(message_manager'.current_message).content = SwitchFailedText
                /\ Unwrap(message_manager'.current_message).duration = CriticalSecs
                /\ status'.performance_mode = status.performance_mode
                /\ device_state' = device_state ]_vars

\* A switch has failed and a later pass, the power source still the same, has left the
\* device alone.
C40_Witness ==
    /\ last.op = "update"
    /\ fully_initialized
    /\ ~power /\ ~ac_power
    /\ Carrying(message_manager, "Failed to switch to Battery profile: " \o ErrText) = 1
    /\ status.performance_mode = "Balanced" /\ dev.perf_mode = Balanced
    /\ last_refresh_time = now
    /\ devlog # << >>
    /\ ~SwitcherRan(devlog)
=============================================================================
